---- MODULE Spec2Model ----
(***************************************************************************)
(* Parent-child chunking, embedding and retrieval engine of bsparx/fyp.    *)
(*                                                                         *)
(*   textSplitterForRag   src/unnamed/part_004 (lines 469-531)             *)
(*   ingest / delete      src/utils/embeddings.ts                          *)
(*   search               src/app/(dashboard)/dashboard/database/actions.ts*)
(*                                                                         *)
(* A text is a sequence of one-character strings (UTF-16 code units).      *)
(***************************************************************************)
EXTENDS Integers, Sequences, FiniteSets, TLC

VARIABLES
    \* ---- textSplitterForRag, run as a call stack ----
    text,        \* the argument `text`
    maxLength,   \* the argument `maxLength`
    stack,       \* activation records of splitByHeader, innermost last
    ret,         \* <<v>> while a value v is being returned to the caller, else <<>>
    output,      \* <<segments>> once textSplitterForRag has returned, else <<>>
    maxDepth,    \* deepest nesting of splitByHeader calls seen in this run
    \* ---- the relational store and the vector index ----
    documents,       \* the ids of the rows of table Document
    isIngested,      \* Document.isIngested, per document
    parentChunkRows, \* the rows of table ParentChunk
    ragChunkRows,    \* the rows of table RagChunk (ChildChunkLink)
    vectorIndex,     \* the entries of the Pinecone index
    \* ---- calls of the exported functions ----
    calls,           \* per call slot, the call that runs there
    started,         \* number of calls started so far
    failures,        \* number of collaborator failures so far
    callBudget       \* number of calls the callers make in this behaviour

splitVars == <<text, maxLength, stack, ret, output, maxDepth>>

storeVars == <<documents, isIngested, parentChunkRows, ragChunkRows, vectorIndex>>

callVars == <<calls, started, failures, callBudget>>

vars == <<text, maxLength, stack, ret, output, maxDepth,
          documents, isIngested, parentChunkRows, ragChunkRows, vectorIndex,
          calls, started, failures, callBudget>>

(***************************************************************************)
(* Bounds of the model.                                                    *)
(***************************************************************************)
MaxTokens == 3        \* an input text is built from at most this many tokens
MaxMaxLength == 7     \* maxLength ranges over 1..MaxMaxLength
MaxCalls == 3         \* calls of ingest / deleteVectors per behaviour (Spec)
MaxApiCalls == 2      \* calls of ingest / deleteVectors / search per behaviour (SpecApi)
MaxFailures == 1      \* collaborator failures per behaviour
MaxTopK == 3          \* search is called with topK in 1..MaxTopK
MaxDocCalls == 2      \* calls per behaviour, document actions included (SpecDocs)
MaxParCalls == 2      \* calls per behaviour that may overlap (SpecPar)
RankStride == 7       \* SpecRrf places hits at the first three ranks, the last
                      \* three ranks and every RankStride-th rank in between

(***************************************************************************)
(* Texts.                                                                  *)
(***************************************************************************)
NL == "\n"

RECURSIVE Hashes(_)
Hashes(n) == IF n = 0 THEN <<>> ELSE <<"#">> \o Hashes(n - 1)

\* part_004:473  const headers = ["\n# ", "\n## ", "\n### ", "\n#### "]
\* (1-based here: headers[k] is the marker of headerLevel k-1)
headers == [k \in 1..4 |-> <<NL>> \o Hashes(k) \o <<" ">>]

\* The pieces input texts are built from: the single characters and the
\* four heading markers.
Tokens == {<<"x">>, <<NL>>, <<"#">>, <<" ">>} \cup {headers[k] : k \in 1..4}

RECURSIVE Flatten(_)
Flatten(ss) == IF ss = <<>> THEN <<>> ELSE Head(ss) \o Flatten(Tail(ss))

Texts == {Flatten(ts) : ts \in UNION {[1..n -> Tokens] : n \in 0..MaxTokens}}

\* does the marker h occur in s at (1-based) position q
OccursAt(s, h, q) ==
    /\ q + Len(h) - 1 <= Len(s)
    /\ SubSeq(s, q, q + Len(h) - 1) = h

(***************************************************************************)
(* textSplitterForRag: the pure function.                                  *)
(***************************************************************************)
Min(S) == CHOOSE x \in S : \A y \in S : x <= y

\* positions at which content.split(/(?=header)/) cuts: every occurrence of
\* the marker except one at the very start (a zero-width match at the start
\* of the string yields no empty leading piece)
SplitPoints(content, header) ==
    {q \in 2..Len(content) : OccursAt(content, header, q)}

RECURSIVE PartsFrom(_, _, _)
PartsFrom(content, pts, start) ==
    IF pts = {}
    THEN <<SubSeq(content, start, Len(content))>>
    ELSE LET q == Min(pts)
         IN  <<SubSeq(content, start, q - 1)>> \o PartsFrom(content, pts \ {q}, q)

\* a split that consumes the marker, as content.split(header) would
SplitConsuming(content, header) ==
    LET RECURSIVE Strip(_, _)
        Strip(ps, k) ==
            IF k > Len(ps) THEN <<>>
            ELSE <<IF k = 1 THEN ps[k]
                   ELSE SubSeq(ps[k], Len(header) + 1, Len(ps[k]))>> \o Strip(ps, k + 1)
    IN  Strip(PartsFrom(content, SplitPoints(content, header), 1), 1)

\* part_004:488  content.split(new RegExp(`(?=${header})`))
Split(content, header) == PartsFrom(content, SplitPoints(content, header), 1)

\* part_004:477  content.length <= maxLength
Fits(content, maxLen) == Len(content) <= maxLen

\* part_004:482  headerLevel >= headers.length
Exhausted(headerLevel) == headerLevel >= Len(headers)

\* a recursion that stays on the same heading level
SameLevel(headerLevel) == headerLevel

\* part_004:492,509  the level of the recursive call, headerLevel + 1
NextLevel(headerLevel) == headerLevel + 1

\* part_004:502  part.length > maxLength
TooLarge(part, maxLen) == Len(part) > maxLen

\* an accumulator that is never flushed early
NeverFlush(accumulated, part, maxLen) == FALSE

\* part_004:512  accumulated && accumulated.length + part.length > maxLength
MustFlush(accumulated, part, maxLen) ==
    accumulated # <<>> /\ Len(accumulated) + Len(part) > maxLen

RECURSIVE splitByHeader(_, _, _)
RECURSIVE splitLoop(_, _, _, _, _, _)

\* part_004:498-527  the for loop over parts and the final flush
splitLoop(parts, i, accumulated, result, headerLevel, maxLen) ==
    IF i > Len(parts)
    THEN IF accumulated # <<>> THEN Append(result, accumulated) ELSE result
    ELSE LET part == parts[i] IN
         IF TooLarge(part, maxLen)
         THEN splitLoop(parts, i + 1, <<>>,
                        (IF accumulated # <<>> THEN Append(result, accumulated) ELSE result)
                            \o splitByHeader(part, NextLevel(headerLevel), maxLen),
                        headerLevel, maxLen)
         ELSE IF MustFlush(accumulated, part, maxLen)
         THEN splitLoop(parts, i + 1, part, Append(result, accumulated), headerLevel, maxLen)
         ELSE splitLoop(parts, i + 1, accumulated \o part, result, headerLevel, maxLen)

\* part_004:475-528
splitByHeader(content, headerLevel, maxLen) ==
    IF Fits(content, maxLen) THEN <<content>>
    ELSE IF Exhausted(headerLevel) THEN <<content>>
    ELSE LET parts == Split(content, headers[headerLevel + 1]) IN
         IF Len(parts) = 1
         THEN splitByHeader(content, NextLevel(headerLevel), maxLen)
         ELSE splitLoop(parts, 1, <<>>, <<>>, headerLevel, maxLen)

\* a splitter that returns no empty segment
SplitDroppingEmpty(t, maxLen) ==
    SelectSeq(splitByHeader(t, 0, maxLen), LAMBDA seg : seg # <<>>)

\* part_004:469-531
textSplitterForRag(t, maxLen) == splitByHeader(t, 0, maxLen)

(***************************************************************************)
(* textSplitterForRag, run one step at a time on a call stack.             *)
(*   pc "entry": at the top of splitByHeader (line 477)                    *)
(*   pc "loop" : in the for loop, about to look at parts[i] (line 499)     *)
(*   pc "tail" : waiting for the call of line 492, whose value it returns  *)
(*   pc "await": waiting for the call of line 509, whose value it appends  *)
(***************************************************************************)
Frame(content, headerLevel) ==
    [content |-> content, headerLevel |-> headerLevel, pc |-> "entry",
     parts |-> <<>>, i |-> 1, accumulated |-> <<>>, result |-> <<>>]

Top == stack[Len(stack)]
Pop == SubSeq(stack, 1, Len(stack) - 1)
SetTop(f) == [stack EXCEPT ![Len(stack)] = f]
Running == stack # <<>> /\ ret = <<>> /\ output = <<>>

SplitStart ==
    /\ text \in Texts
    /\ maxLength \in 1..MaxMaxLength
    /\ stack = <<Frame(text, 0)>>       \* part_004:530
    /\ ret = <<>>
    /\ output = <<>>
    /\ maxDepth = 0

\* part_004:477-479 and 482-484: the two terminal cases
EnterReturn ==
    /\ Running /\ Top.pc = "entry"
    /\ Fits(Top.content, maxLength) \/ Exhausted(Top.headerLevel)
    /\ ret' = <<(<<Top.content>>)>>
    /\ stack' = Pop
    /\ UNCHANGED <<text, maxLength, output, maxDepth, storeVars, callVars>>

\* part_004:487-493: no marker of this level, try the next level
EnterNoSplit ==
    /\ Running /\ Top.pc = "entry"
    /\ ~Fits(Top.content, maxLength) /\ ~Exhausted(Top.headerLevel)
    /\ Len(Split(Top.content, headers[Top.headerLevel + 1])) = 1
    /\ stack' = Append(SetTop([Top EXCEPT !.pc = "tail"]),
                       Frame(Top.content, NextLevel(Top.headerLevel)))
    /\ maxDepth' = IF Len(stack) > maxDepth THEN Len(stack) ELSE maxDepth
    /\ UNCHANGED <<text, maxLength, ret, output, storeVars, callVars>>

\* part_004:487-496: the split produced several parts, enter the loop
EnterSplit ==
    /\ Running /\ Top.pc = "entry"
    /\ ~Fits(Top.content, maxLength) /\ ~Exhausted(Top.headerLevel)
    /\ LET parts == Split(Top.content, headers[Top.headerLevel + 1]) IN
        /\ Len(parts) # 1
        /\ stack' = SetTop([Top EXCEPT !.pc = "loop", !.parts = parts, !.i = 1,
                                       !.accumulated = <<>>, !.result = <<>>])
    /\ UNCHANGED <<text, maxLength, ret, output, maxDepth, storeVars, callVars>>

\* part_004:502-510: an oversized part is split at the next level
LoopRecurse ==
    /\ Running /\ Top.pc = "loop" /\ Top.i <= Len(Top.parts)
    /\ LET part == Top.parts[Top.i] IN
        /\ TooLarge(part, maxLength)
        /\ stack' = Append(
              SetTop([Top EXCEPT !.pc = "await", !.accumulated = <<>>,
                        !.result = IF Top.accumulated # <<>>
                                   THEN Append(Top.result, Top.accumulated)
                                   ELSE Top.result]),
              Frame(part, NextLevel(Top.headerLevel)))
    /\ maxDepth' = IF Len(stack) > maxDepth THEN Len(stack) ELSE maxDepth
    /\ UNCHANGED <<text, maxLength, ret, output, storeVars, callVars>>

\* part_004:512-515
LoopFlush ==
    /\ Running /\ Top.pc = "loop" /\ Top.i <= Len(Top.parts)
    /\ LET part == Top.parts[Top.i] IN
        /\ ~TooLarge(part, maxLength)
        /\ MustFlush(Top.accumulated, part, maxLength)
        /\ stack' = SetTop([Top EXCEPT !.result = Append(Top.result, Top.accumulated),
                                       !.accumulated = part, !.i = Top.i + 1])
    /\ UNCHANGED <<text, maxLength, ret, output, maxDepth, storeVars, callVars>>

\* part_004:517-519
LoopAccumulate ==
    /\ Running /\ Top.pc = "loop" /\ Top.i <= Len(Top.parts)
    /\ LET part == Top.parts[Top.i] IN
        /\ ~TooLarge(part, maxLength)
        /\ ~MustFlush(Top.accumulated, part, maxLength)
        /\ stack' = SetTop([Top EXCEPT !.accumulated = Top.accumulated \o part,
                                       !.i = Top.i + 1])
    /\ UNCHANGED <<text, maxLength, ret, output, maxDepth, storeVars, callVars>>

\* part_004:522-527: the loop is over, flush and return
LoopReturn ==
    /\ Running /\ Top.pc = "loop" /\ Top.i > Len(Top.parts)
    /\ ret' = <<IF Top.accumulated # <<>>
                THEN Append(Top.result, Top.accumulated)
                ELSE Top.result>>
    /\ stack' = Pop
    /\ UNCHANGED <<text, maxLength, output, maxDepth, storeVars, callVars>>

\* part_004:492: return splitByHeader(content, headerLevel + 1)
ResumeTail ==
    /\ ret # <<>> /\ stack # <<>> /\ Top.pc = "tail"
    /\ stack' = Pop
    /\ UNCHANGED <<text, maxLength, ret, output, maxDepth, storeVars, callVars>>

\* part_004:509: result.push(...splitByHeader(part, headerLevel + 1))
ResumeAwait ==
    /\ ret # <<>> /\ stack # <<>> /\ Top.pc = "await"
    /\ stack' = SetTop([Top EXCEPT !.pc = "loop", !.result = Top.result \o ret[1],
                                   !.i = Top.i + 1])
    /\ ret' = <<>>
    /\ UNCHANGED <<text, maxLength, output, maxDepth, storeVars, callVars>>

\* part_004:530: the outermost call returns
SplitFinish ==
    /\ ret # <<>> /\ stack = <<>> /\ output = <<>>
    /\ output' = ret
    /\ ret' = <<>>
    /\ UNCHANGED <<text, maxLength, stack, maxDepth, storeVars, callVars>>

SplitNext ==
    \/ EnterReturn
    \/ EnterNoSplit
    \/ EnterSplit
    \/ LoopRecurse
    \/ LoopFlush
    \/ LoopAccumulate
    \/ LoopReturn
    \/ ResumeTail
    \/ ResumeAwait
    \/ SplitFinish

SplitDone == output # <<>>

(***************************************************************************)
(* Documents and their contents.                                           *)
(***************************************************************************)
\* part_004:471  maxLength = 4000
DefaultMaxLength == 4000

\* embeddings.ts:24  chunkSize: 201
ChunkSize == 201

\* one document of type RAG and one of type PATIENT
Docs == {"d1", "p1"}

\* embeddings.ts:126 and 273: the type tag written to the vector metadata
DocType(d) == IF d = "p1" THEN "patient" ELSE "medicine"

Rep(ch, n) == [i \in 1..n |-> ch]

ContentIds == {"empty", "one", "three"}

\* embeddings.ts:144  parentIndex * 1000 + idx
IndexStride == 1000

\* texts whose first section has no heading inside and is cut into
\* IndexStride, or IndexStride + 1, children
LongContentIds == {"long1000", "long1001"}

\* the texts handed to ingest: an empty text, a short text, and a text of
\* three sections that do not fit into one parent chunk two by two, the
\* first and the last of them equal
ContentText(c) ==
    CASE c = "empty" -> <<>>
      [] c = "one"   -> <<"#", " ", "A", NL, "x", "x">>
      [] c = "three" -> <<NL, "#", " ", "A", NL>> \o Rep("x", 195)
                          \o <<NL, "#", " ", "B", NL>> \o Rep("y", 3796)
                          \o <<NL, "#", " ", "A", NL>> \o Rep("x", 195)
      [] c = "long1000" -> Rep("z", IndexStride * ChunkSize)
                             \o <<NL, "#", " ", "B", NL>> \o Rep("y", 3)
      [] c = "long1001" -> Rep("z", IndexStride * ChunkSize + 1)
                             \o <<NL, "#", " ", "B", NL>> \o Rep("y", 3)

\* embeddings.ts:60  textSplitterForRag(content)
\* the segments of the long texts, written out: the section without
\* heading, whole, and the section under the heading (InitLong checks that
\* textSplitterForRag returns them)
LongParentChunks(c) ==
    <<Rep("z", IF c = "long1000" THEN IndexStride * ChunkSize
                                  ELSE IndexStride * ChunkSize + 1),
      <<NL, "#", " ", "B", NL>> \o Rep("y", 3)>>

ParentChunksOf ==
    [c \in ContentIds \cup LongContentIds |->
        IF c \in LongContentIds
        THEN LongParentChunks(c)
        ELSE textSplitterForRag(ContentText(c), DefaultMaxLength)]

\* embeddings.ts:23-26 and 97: the child splitter cuts a parent into pieces
\* of at most chunkSize characters, without overlap; an empty text has none
childSplitter(t) ==
    [k \in 1..((Len(t) + ChunkSize - 1) \div ChunkSize) |->
        SubSeq(t, (k - 1) * ChunkSize + 1,
               IF k * ChunkSize < Len(t) THEN k * ChunkSize ELSE Len(t))]

\* number of child chunks of parent k (1-based) of content c
ChildCountOf ==
    [c \in ContentIds \cup LongContentIds |-> [k \in 1..Len(ParentChunksOf[c]) |->
        Len(childSplitter(ParentChunksOf[c][k]))]]

\* an id that leaves out the parent
PineconeIdOfChild(d, parentIndex, childIdx) == <<d, 0, childIdx>>

\* embeddings.ts:144  chunkIndex: parentIndex * 1000 + idx
ChunkIndex(parentIndex, idx) == parentIndex * IndexStride + idx

\* embeddings.ts:115  `${documentId}_parent${parentIndex}_child${childIdx}`
PineconeId(d, parentIndex, childIdx) == <<d, parentIndex, childIdx>>

(***************************************************************************)
(* Calls. A call slot holds the activation of one exported function.       *)
(***************************************************************************)
Slots == {1, 2}

IdleCall ==
    [op |-> "idle", doc |-> "none", content |-> "none", pc |-> "idle",
     parents |-> <<>>, ids |-> {}, result |-> "none", num |-> 0,
     flagAtStart |-> FALSE, effects |-> {}, didMark |-> FALSE,
     caught |-> FALSE, pastCleanup |-> FALSE,
     query |-> <<>>, topK |-> 0, typeFilter |-> "none",
     candidates |-> <<>>, results |-> <<>>,
     handler |-> "none", outcome |-> "none", ingestedBefore |-> FALSE,
     hits |-> <<>>, intermediate |-> <<>>, unique |-> <<>>, rerank |-> "none",
     reply |-> <<>>, failedAt |-> "none"]

NewParent ==
    [pc |-> "new", rowId |-> <<0, 0>>, failed |-> FALSE, attempts |-> 0,
     upserted |-> FALSE, stored |-> FALSE]

\* a call is running, or the server action around it has not returned yet
InFlight(c) == c.pc \notin {"idle", "done"} \/ c.outcome = "running"

StoreInit ==
    /\ documents = Docs
    /\ isIngested = [d \in Docs |-> FALSE]     \* upload/actions.ts:64
    /\ parentChunkRows = {}
    /\ ragChunkRows = {}
    /\ vectorIndex = {}

CallsInit ==
    /\ calls = [s \in Slots |-> IdleCall]
    /\ started = 0
    /\ failures = 0
    /\ callBudget = MaxCalls

ApiCallsInit ==
    /\ calls = [s \in Slots |-> IdleCall]
    /\ started = 0
    /\ failures = 0
    /\ callBudget = MaxApiCalls

DocCallsInit ==
    /\ calls = [s \in Slots |-> IdleCall]
    /\ started = 0
    /\ failures = 0
    /\ callBudget = MaxDocCalls

SplitIdle ==
    /\ text = <<>>
    /\ maxLength = DefaultMaxLength
    /\ stack = <<>>
    /\ ret = <<>>
    /\ output = <<>>
    /\ maxDepth = 0

\* calls are made one after the other: a call starts when none is running
CanStart(s) ==
    /\ s = 1
    /\ \A t \in Slots : ~InFlight(calls[t])
    /\ started < callBudget

\* a collaborator call may fail
MayFail == failures < MaxFailures

Did(c, what) == [c EXCEPT !.effects = c.effects \cup {what}]

\* an outer catch that lets the exception through
OuterRethrow(c) == [c EXCEPT !.pc = "done", !.result = "threw"]

\* embeddings.ts:174-177 and 359-362: the outer catch logs and returns false
OuterCatch(c) == [c EXCEPT !.pc = "done", !.result = "false", !.caught = TRUE]

\* a per-parent failure that aborts the whole routine
ParentRethrow(c, k) == OuterCatch(c)

\* embeddings.ts:150-152: the per-parent catch logs, the parent is over
ParentCatch(c, k) ==
    [c EXCEPT !.parents[k].pc = "done", !.parents[k].failed = TRUE]

\* a fan-out that does not wait for parent 0
WarmUpSkipped(c) == TRUE

\* embeddings.ts:156: await processSingleParent(parentChunks[0], 0)
WarmUpDone(c) == c.parents[1].pc = "done"

\* only the warm-up parent is awaited
FirstParentDone(c) == c.parents[1].pc = "done"

\* embeddings.ts:156-164: parent 0 and Promise.all of the others have settled
AllParentsDone(c) == \A k \in 1..Len(c.parents) : c.parents[k].pc = "done"

\* a lookup that never finds the flag set
NeverIngested(d) == FALSE

\* embeddings.ts:54 (199): existingDoc?.isIngested
AlreadyIngested(d) == isIngested[d]

\* a deleteMany that removes nothing
Untouched(rows, d) == rows

\* embeddings.ts:75-77 (220-222) and 348-350: deleteMany({ where: { documentId } })
WithoutDocument(rows, d) == {r \in rows : r.documentId # d}

\* a routine that reports failure after the flag update
ReportsFalse == "false"

\* embeddings.ts:173  return true
IngestSuccess == "true"

(***************************************************************************)
(* embedAndStoreDocument / embedAndStorePatientDocument                    *)
(***************************************************************************)
\* a caller invokes ingest(documentId, content, title)
StartIngest(s, d, cid) ==
    /\ CanStart(s)
    /\ calls' = [calls EXCEPT ![s] =
          [IdleCall EXCEPT !.op = "ingest", !.doc = d, !.content = cid,
                           !.pc = "lookup", !.num = started + 1,
                           !.flagAtStart = isIngested[d]]]
    /\ started' = started + 1
    /\ UNCHANGED <<failures, callBudget, storeVars, splitVars>>

\* embeddings.ts:49-57 (194-202): the lookup and the idempotence short-circuit
IngestLookup(s) ==
    LET c == calls[s] IN
    /\ c.op = "ingest" /\ c.pc = "lookup"
    /\ \/ /\ MayFail
          /\ failures' = failures + 1
          /\ calls' = [calls EXCEPT ![s] = OuterCatch(c)]
       \/ /\ UNCHANGED failures
          /\ calls' = [calls EXCEPT ![s] =
                IF AlreadyIngested(c.doc)
                THEN [c EXCEPT !.pc = "done", !.result = "true"]
                ELSE [c EXCEPT !.pc = "split"]]
    /\ UNCHANGED <<started, callBudget, storeVars, splitVars>>

\* embeddings.ts:60-74 (205-219): split, then the first cleanup delete
IngestDeleteRagChunks(s) ==
    LET c == calls[s]
        n == Len(ParentChunksOf[c.content])
    IN
    /\ c.op = "ingest" /\ c.pc = "split"
    /\ IF n = 0
       THEN /\ calls' = [calls EXCEPT ![s] = [c EXCEPT !.pc = "done", !.result = "true"]]
            /\ UNCHANGED <<failures, ragChunkRows>>
       ELSE \/ /\ MayFail
               /\ failures' = failures + 1
               /\ calls' = [calls EXCEPT ![s] = OuterCatch(Did(c, "ragChunk.deleteMany"))]
               /\ UNCHANGED ragChunkRows
            \/ /\ UNCHANGED failures
               /\ ragChunkRows' = {r \in ragChunkRows : r.documentId # c.doc}
               /\ calls' = [calls EXCEPT ![s] =
                     [Did(c, "ragChunk.deleteMany") EXCEPT
                         !.pc = "deleteParents",
                         !.parents = [k \in 1..n |-> NewParent]]]
    /\ UNCHANGED <<started, callBudget, documents, isIngested, parentChunkRows, vectorIndex, splitVars>>

\* embeddings.ts:75-77 (220-222), then 156: parent 0 is started
IngestDeleteParentChunks(s) ==
    LET c == calls[s]
        gone == {r.id : r \in {x \in parentChunkRows : x.documentId = c.doc}}
    IN
    /\ c.op = "ingest" /\ c.pc = "deleteParents"
    /\ \/ /\ MayFail
          /\ failures' = failures + 1
          /\ calls' = [calls EXCEPT ![s] = OuterCatch(Did(c, "parentChunk.deleteMany"))]
          /\ UNCHANGED <<parentChunkRows, ragChunkRows>>
       \/ /\ UNCHANGED failures
          /\ parentChunkRows' = WithoutDocument(parentChunkRows, c.doc)
          \* ON DELETE CASCADE of RagChunk_parentChunkId_fkey
          /\ ragChunkRows' = {r \in ragChunkRows : r.parentChunkId \notin gone}
          /\ calls' = [calls EXCEPT ![s] =
                [Did(c, "parentChunk.deleteMany") EXCEPT
                    !.pc = "first", !.pastCleanup = TRUE,
                    !.parents[1].pc = "create", !.parents[1].attempts = 1]]
    /\ UNCHANGED <<started, callBudget, documents, isIngested, vectorIndex, splitVars>>

\* a table without the unique index
IndexFree(d, parentIndex) == FALSE

\* migration.sql:21-22  ParentChunk_documentId_parentIndex_key
IndexTaken(d, parentIndex) ==
    \E r \in parentChunkRows : r.documentId = d /\ r.parentIndex = parentIndex

RunsParent(c, k) ==
    /\ c.op = "ingest" /\ c.pc \in {"first", "rest"}
    /\ k \in 1..Len(c.parents)

\* embeddings.ts:88-94 (233-239): prisma.parentChunk.create
ParentCreate(s, k) ==
    LET c == calls[s]
        row == [id |-> <<c.num, k - 1>>, documentId |-> c.doc,
                parentIndex |-> k - 1, content |-> c.content]
        \* ParentChunk_documentId_parentIndex_key, ParentChunk_documentId_fkey
        clash == \/ IndexTaken(c.doc, k - 1)
                 \/ c.doc \notin documents
    IN
    /\ RunsParent(c, k) /\ c.parents[k].pc = "create"
    /\ \/ /\ clash \/ MayFail
          /\ failures' = IF clash THEN failures ELSE failures + 1
          /\ calls' = [calls EXCEPT ![s] = ParentCatch(Did(c, "parentChunk.create"), k)]
          /\ UNCHANGED parentChunkRows
       \/ /\ ~clash
          /\ UNCHANGED failures
          /\ parentChunkRows' = parentChunkRows \cup {row}
          /\ calls' = [calls EXCEPT ![s] =
                [Did(c, "parentChunk.create") EXCEPT
                    !.parents[k].pc = "childSplit", !.parents[k].rowId = row.id]]
    /\ UNCHANGED <<started, callBudget, documents, isIngested, ragChunkRows, vectorIndex, splitVars>>

\* embeddings.ts:97-102 (242-247): childSplitter.splitText
ParentChildSplit(s, k) ==
    LET c == calls[s] IN
    /\ RunsParent(c, k) /\ c.parents[k].pc = "childSplit"
    /\ \/ /\ MayFail
          /\ failures' = failures + 1
          /\ calls' = [calls EXCEPT ![s] = ParentCatch(c, k)]
       \/ /\ UNCHANGED failures
          /\ calls' = [calls EXCEPT ![s] =
                IF ChildCountOf[c.content][k] = 0
                THEN [c EXCEPT !.parents[k].pc = "done"]
                ELSE [c EXCEPT !.parents[k].pc = "embed"]]
    /\ UNCHANGED <<started, callBudget, storeVars, splitVars>>

\* embeddings.ts:105-132 (250-279): voyageClient.embed; without data in the
\* answer there are no vectors and the parent is over
ParentEmbed(s, k) ==
    LET c == calls[s] IN
    /\ RunsParent(c, k) /\ c.parents[k].pc = "embed"
    /\ \/ /\ MayFail
          /\ failures' = failures + 1
          /\ \/ calls' = [calls EXCEPT ![s] = ParentCatch(Did(c, "embed"), k)]
             \/ calls' = [calls EXCEPT ![s] =
                   [Did(c, "embed") EXCEPT !.parents[k].pc = "done"]]
       \/ /\ UNCHANGED failures
          /\ calls' = [calls EXCEPT ![s] =
                [Did(c, "embed") EXCEPT !.parents[k].pc = "upsert"]]
    /\ UNCHANGED <<started, callBudget, storeVars, splitVars>>

\* embeddings.ts:113-130 (258-277): the vectors of parent k
VectorsOf(c, k) ==
    {[id |-> PineconeId(c.doc, k - 1, j - 1), documentId |-> c.doc,
      parentChunkId |-> c.parents[k].rowId, parentIndex |-> k - 1,
      childIndex |-> j - 1, content |-> c.content, type |-> DocType(c.doc)]
        : j \in 1..ChildCountOf[c.content][k]}

\* embeddings.ts:134 (281): index.upsert(vectors)
ParentUpsert(s, k) ==
    LET c == calls[s]
        vs == VectorsOf(c, k)
    IN
    /\ RunsParent(c, k) /\ c.parents[k].pc = "upsert"
    /\ \/ /\ MayFail
          /\ failures' = failures + 1
          /\ calls' = [calls EXCEPT ![s] = ParentCatch(Did(c, "index.upsert"), k)]
          /\ UNCHANGED vectorIndex
       \/ /\ UNCHANGED failures
          /\ vectorIndex' =
                {v \in vectorIndex : v.id \notin {w.id : w \in vs}} \cup vs
          /\ calls' = [calls EXCEPT ![s] =
                [Did(c, "index.upsert") EXCEPT
                    !.parents[k].pc = "createMany", !.parents[k].upserted = TRUE]]
    /\ UNCHANGED <<started, callBudget, documents, isIngested, parentChunkRows, ragChunkRows, splitVars>>

\* a createMany that stores no row
NoRagChunks(c, k) == {}

\* rows that all reference the ParentChunk row of the warm-up parent
RagChunksOfFirstParent(c, k) ==
    {[documentId |-> c.doc, parentChunkId |-> c.parents[1].rowId,
      chunkIndex |-> ChunkIndex(k - 1, j - 1), content |-> c.content,
      pineconeId |-> PineconeId(c.doc, k - 1, j - 1)]
        : j \in 1..ChildCountOf[c.content][k]}

\* embeddings.ts:141-147 (288-294): one RagChunk row per vector
RagChunksOf(c, k) ==
    {[documentId |-> c.doc, parentChunkId |-> c.parents[k].rowId,
      chunkIndex |-> ChunkIndex(k - 1, j - 1), content |-> c.content,
      pineconeId |-> PineconeId(c.doc, k - 1, j - 1)]
        : j \in 1..ChildCountOf[c.content][k]}

\* embeddings.ts:140-148 (287-295): prisma.ragChunk.createMany
ParentCreateMany(s, k) ==
    LET c == calls[s]
        rows == RagChunksOf(c, k)
        \* RagChunk_pineconeId_key and RagChunk_parentChunkId_fkey
        clash == \/ \E r \in ragChunkRows : r.pineconeId \in {x.pineconeId : x \in rows}
                 \/ c.parents[k].rowId \notin {r.id : r \in parentChunkRows}
    IN
    /\ RunsParent(c, k) /\ c.parents[k].pc = "createMany"
    /\ \/ /\ clash \/ MayFail
          /\ failures' = IF clash THEN failures ELSE failures + 1
          /\ calls' = [calls EXCEPT ![s] = ParentCatch(Did(c, "ragChunk.createMany"), k)]
          /\ UNCHANGED ragChunkRows
       \/ /\ ~clash
          /\ UNCHANGED failures
          /\ ragChunkRows' = ragChunkRows \cup rows
          /\ calls' = [calls EXCEPT ![s] =
                [Did(c, "ragChunk.createMany") EXCEPT
                    !.parents[k].pc = "done", !.parents[k].stored = TRUE]]
    /\ UNCHANGED <<started, callBudget, documents, isIngested, parentChunkRows, vectorIndex, splitVars>>

\* embeddings.ts:159-163 (306-310): parent 0 is over, the others are started
IngestFanOut(s) ==
    LET c == calls[s] IN
    /\ c.op = "ingest" /\ c.pc = "first" /\ WarmUpDone(c)
    /\ calls' = [calls EXCEPT ![s] =
          [c EXCEPT !.pc = "rest",
                    !.parents = [k \in 1..Len(c.parents) |->
                        IF k = 1 THEN c.parents[k]
                        ELSE [c.parents[k] EXCEPT
                                 !.pc = "create",
                                 !.attempts = c.parents[k].attempts + 1]]]]
    /\ UNCHANGED <<started, callBudget, documents, failures, storeVars, splitVars>>

\* embeddings.ts:167-173 (314-320): prisma.document.update, then return true
IngestMark(s) ==
    LET c == calls[s] IN
    /\ c.op = "ingest" /\ c.pc = "rest" /\ AllParentsDone(c)
    \* an update of a record that does not exist throws
    /\ \/ /\ c.doc \notin documents \/ MayFail
          /\ failures' = IF c.doc \notin documents THEN failures ELSE failures + 1
          /\ calls' = [calls EXCEPT ![s] = OuterCatch(Did(c, "document.update"))]
          /\ UNCHANGED isIngested
       \/ /\ c.doc \in documents
          /\ UNCHANGED failures
          /\ isIngested' = [isIngested EXCEPT ![c.doc] = TRUE]
          /\ calls' = [calls EXCEPT ![s] =
                [Did(c, "document.update") EXCEPT
                    !.pc = "done", !.result = IngestSuccess, !.didMark = TRUE]]
    /\ UNCHANGED <<started, callBudget, documents, parentChunkRows, ragChunkRows, vectorIndex, splitVars>>

(***************************************************************************)
(* deleteDocumentVectors                                                   *)
(***************************************************************************)
StartDelete(s, d) ==
    /\ CanStart(s)
    /\ calls' = [calls EXCEPT ![s] =
          [IdleCall EXCEPT !.op = "delete", !.doc = d, !.pc = "findChunks",
                           !.num = started + 1, !.flagAtStart = isIngested[d]]]
    /\ started' = started + 1
    /\ UNCHANGED <<failures, callBudget, storeVars, splitVars>>

\* embeddings.ts:335-338: prisma.ragChunk.findMany
DeleteFindChunks(s) ==
    LET c == calls[s]
        ids == {r.pineconeId : r \in {x \in ragChunkRows : x.documentId = c.doc}}
    IN
    /\ c.op = "delete" /\ c.pc = "findChunks"
    /\ \/ /\ MayFail
          /\ failures' = failures + 1
          /\ calls' = [calls EXCEPT ![s] = OuterCatch(c)]
       \/ /\ UNCHANGED failures
          /\ calls' = [calls EXCEPT ![s] =
                [c EXCEPT !.ids = ids,
                          !.pc = IF ids # {} THEN "deleteVectors" ELSE "deleteParents"]]
    /\ UNCHANGED <<started, callBudget, storeVars, splitVars>>

\* embeddings.ts:340-345: index.deleteMany(pineconeIds)
DeleteVectors(s) ==
    LET c == calls[s] IN
    /\ c.op = "delete" /\ c.pc = "deleteVectors"
    /\ \/ /\ MayFail
          /\ failures' = failures + 1
          /\ calls' = [calls EXCEPT ![s] = OuterCatch(Did(c, "index.deleteMany"))]
          /\ UNCHANGED vectorIndex
       \/ /\ UNCHANGED failures
          /\ vectorIndex' = {v \in vectorIndex : v.id \notin c.ids}
          /\ calls' = [calls EXCEPT ![s] =
                [Did(c, "index.deleteMany") EXCEPT !.pc = "deleteParents"]]
    /\ UNCHANGED <<started, callBudget, documents, isIngested, parentChunkRows, ragChunkRows, splitVars>>

\* embeddings.ts:348-350: prisma.parentChunk.deleteMany, cascading
DeleteParentChunks(s) ==
    LET c == calls[s]
        gone == {r.id : r \in {x \in parentChunkRows : x.documentId = c.doc}}
    IN
    /\ c.op = "delete" /\ c.pc = "deleteParents"
    /\ \/ /\ MayFail
          /\ failures' = failures + 1
          /\ calls' = [calls EXCEPT ![s] = OuterCatch(Did(c, "parentChunk.deleteMany"))]
          /\ UNCHANGED <<parentChunkRows, ragChunkRows>>
       \/ /\ UNCHANGED failures
          /\ parentChunkRows' = WithoutDocument(parentChunkRows, c.doc)
          /\ ragChunkRows' = {r \in ragChunkRows : r.parentChunkId \notin gone}
          /\ calls' = [calls EXCEPT ![s] =
                [Did(c, "parentChunk.deleteMany") EXCEPT !.pc = "unmark"]]
    /\ UNCHANGED <<started, callBudget, documents, isIngested, vectorIndex, splitVars>>

\* embeddings.ts:353-358: prisma.document.update, then return true
DeleteUnmark(s) ==
    LET c == calls[s] IN
    /\ c.op = "delete" /\ c.pc = "unmark"
    \* an update of a record that does not exist throws
    /\ \/ /\ c.doc \notin documents \/ MayFail
          /\ failures' = IF c.doc \notin documents THEN failures ELSE failures + 1
          /\ calls' = [calls EXCEPT ![s] = OuterCatch(Did(c, "document.update"))]
          /\ UNCHANGED isIngested
       \/ /\ c.doc \in documents
          /\ UNCHANGED failures
          /\ isIngested' = [isIngested EXCEPT ![c.doc] = FALSE]
          /\ calls' = [calls EXCEPT ![s] =
                [Did(c, "document.update") EXCEPT !.pc = "done", !.result = "true"]]
    /\ UNCHANGED <<started, callBudget, documents, parentChunkRows, ragChunkRows, vectorIndex, splitVars>>

(***************************************************************************)
(* The server actions around the two routines: reembedDocument,            *)
(* deleteDocument (upload and database actions) and deleteUserDocument.    *)
(***************************************************************************)
DeleteHandlers == {"deleteDocument", "deleteUserDocument"}

\* the action returns { success: false }
ActionFailure(c) == [c EXCEPT !.pc = "done", !.outcome = "failure"]

\* the action returns { success: true }
ActionSuccess(c) == [c EXCEPT !.pc = "done", !.outcome = "success"]

\* upload/actions.ts:204-207: a caller invokes reembedDocument(documentId)
StartReembed(s, d) ==
    /\ CanStart(s)
    /\ calls' = [calls EXCEPT ![s] =
          [IdleCall EXCEPT !.op = "reembed", !.handler = "reembedDocument",
                           !.outcome = "running", !.doc = d, !.pc = "lookup",
                           !.num = started + 1,
                           !.ingestedBefore = isIngested[d]]]
    /\ started' = started + 1
    /\ UNCHANGED <<failures, callBudget, storeVars, splitVars>>

\* upload/actions.ts:208-217: the document is read; without it the action
\* ends, with it deleteDocumentVectors is called
ReembedLookup(s, cid) ==
    LET c == calls[s] IN
    /\ c.op = "reembed" /\ c.pc = "lookup"
    /\ \/ /\ MayFail
          /\ failures' = failures + 1
          /\ calls' = [calls EXCEPT ![s] = ActionFailure(c)]
       \/ /\ UNCHANGED failures
          /\ calls' = [calls EXCEPT ![s] =
                IF c.doc \notin documents
                THEN ActionFailure(c)
                ELSE [c EXCEPT !.op = "delete", !.pc = "findChunks",
                               !.content = cid,      \* document.content
                               !.flagAtStart = isIngested[c.doc]]]
    /\ UNCHANGED <<started, callBudget, storeVars, splitVars>>

\* upload/actions.ts:217-224: whatever deleteDocumentVectors returned,
\* embedAndStoreDocument is called with the content of the document
ReembedIngest(s) ==
    LET c == calls[s] IN
    /\ c.op = "delete" /\ c.pc = "done"
    /\ c.handler = "reembedDocument" /\ c.outcome = "running"
    /\ calls' = [calls EXCEPT ![s] =
          [IdleCall EXCEPT !.op = "ingest", !.doc = c.doc, !.content = c.content,
                           !.pc = "lookup", !.num = c.num,
                           !.flagAtStart = isIngested[c.doc],
                           !.handler = c.handler, !.outcome = c.outcome,
                           !.ingestedBefore = c.ingestedBefore]]
    /\ UNCHANGED <<started, failures, callBudget, storeVars, splitVars>>

\* upload/actions.ts:226-230: the action reports what ingest returned
ReembedReturn(s) ==
    LET c == calls[s] IN
    /\ c.op = "ingest" /\ c.pc = "done"
    /\ c.handler = "reembedDocument" /\ c.outcome = "running"
    /\ calls' = [calls EXCEPT ![s] =
          IF c.result = "true" THEN ActionSuccess(c) ELSE ActionFailure(c)]
    /\ UNCHANGED <<started, failures, callBudget, storeVars, splitVars>>

\* upload/actions.ts:106-111, database/actions.ts:83-88: deleteDocument
\* first calls deleteDocumentVectors; users/data/actions.ts:305-308:
\* deleteUserDocument goes to the row at once
StartDeleteDocument(s, d, h) ==
    /\ CanStart(s)
    /\ calls' = [calls EXCEPT ![s] =
          [IdleCall EXCEPT !.op = IF h = "deleteDocument" THEN "delete" ELSE "deleteRow",
                           !.pc = IF h = "deleteDocument" THEN "findChunks" ELSE "deleteRow",
                           !.handler = h, !.outcome = "running", !.doc = d,
                           !.num = started + 1,
                           !.flagAtStart = isIngested[d],
                           !.ingestedBefore = isIngested[d]]]
    /\ started' = started + 1
    /\ UNCHANGED <<failures, callBudget, storeVars, splitVars>>

\* upload/actions.ts:113-131, database/actions.ts:90-100,
\* users/data/actions.ts:309-326: prisma.document.delete, whose cascade
\* removes the ParentChunk and RagChunk rows of the document
DeleteDocumentRow(s) ==
    LET c == calls[s]
        missing == c.doc \notin documents
    IN
    /\ c.handler \in DeleteHandlers /\ c.outcome = "running"
    /\ \/ c.op = "delete" /\ c.pc = "done"
       \/ c.op = "deleteRow" /\ c.pc = "deleteRow"
    /\ \/ /\ missing \/ MayFail
          /\ failures' = IF missing THEN failures ELSE failures + 1
          /\ calls' = [calls EXCEPT ![s] = ActionFailure(Did(c, "document.delete"))]
          /\ UNCHANGED storeVars
       \/ /\ ~missing
          /\ UNCHANGED failures
          /\ documents' = documents \ {c.doc}
          /\ isIngested' = [isIngested EXCEPT ![c.doc] = FALSE]
          \* ParentChunk_documentId_fkey, RagChunk_documentId_fkey
          /\ parentChunkRows' = {r \in parentChunkRows : r.documentId # c.doc}
          /\ ragChunkRows' = {r \in ragChunkRows : r.documentId # c.doc}
          /\ UNCHANGED vectorIndex
          /\ calls' = [calls EXCEPT ![s] = ActionSuccess(Did(c, "document.delete"))]
    /\ UNCHANGED <<started, callBudget, splitVars>>

(***************************************************************************)
(* searchVectorDatabase                                                    *)
(***************************************************************************)
\* database/actions.ts:262  1 / (index + 60)
RrfK == 60

\* database/actions.ts:285  .slice(0, 10)
TopParents == 10

Whitespace == {" ", NL}

\* a check that lets every query through
NeverBlank(q) == FALSE

\* database/actions.ts:216  !query.trim()
Blank(q) == \A i \in 1..Len(q) : q[i] \in Whitespace

Queries == {<<>>, <<" ", NL>>, <<"f", "l", "u">>}

\* the values a caller can pass as typeFilter; the declared type allows the
\* first three
TypeFilters == {"all", "medicine", "disease", "patient"}

\* database/actions.ts:224-234: the metadata filter
FilterMatches(typeFilter, v) ==
    IF typeFilter = "all"
    THEN v.type \in {"medicine", "disease"}
    ELSE v.type = typeFilter

\* the similarity the index reports for the hit of (zero-based) rank i, and
\* the relevance the reranker reports for its entry at position i: both
\* lists come best first
SimilarityAt(i) == 100 - i

\* embeddings.ts:449-466: what index.query can answer: at most topK entries
\* that match the filter, each with its parent reference
HitLists(typeFilter, topK) ==
    LET matching == {v \in vectorIndex : FilterMatches(typeFilter, v)}
        groups == {<<v.parentChunkId, v.documentId>> : v \in matching}
        size(g) == Cardinality({v \in matching :
                                   <<v.parentChunkId, v.documentId>> = g})
        ok(h) == \A g \in groups :
                    Cardinality({i \in 1..Len(h) : h[i] = g}) <= size(g)
    IN  {h \in UNION {[1..n -> groups] : n \in 0..topK} : ok(h)}

\* database/actions.ts:262: scores are kept in units of 1 / RrfScale, so a
\* sum of fifty contributions is off by less than 50 / RrfScale
RrfScale == 100000000

\* database/actions.ts:262  1 / (index + 60)
RrfScore(index) == RrfScale \div (index + RrfK)

\* database/actions.ts:254-275: the reciprocal rank fusion
RECURSIVE Aggregate(_, _, _)
Aggregate(h, i, acc) ==
    IF i > Len(h) THEN acc
    ELSE LET rrf == RrfScore(i - 1)
             at == {j \in 1..Len(acc) : acc[j].parentChunkId = h[i][1]}
         IN  IF at # {}
             THEN LET j == CHOOSE x \in at : TRUE IN
                  Aggregate(h, i + 1,
                      [acc EXCEPT ![j].total = acc[j].total + rrf,
                                  ![j].maxScore =
                                      IF SimilarityAt(i - 1) > acc[j].maxScore
                                      THEN SimilarityAt(i - 1) ELSE acc[j].maxScore])
             ELSE Aggregate(h, i + 1,
                      Append(acc, [parentChunkId |-> h[i][1], documentId |-> h[i][2],
                                   total |-> rrf, maxScore |-> SimilarityAt(i - 1)]))

\* a comparator that looks at the similarity only
CompareSimilarity(a, b, den) == b.maxScore - a.maxScore

\* database/actions.ts:279-284: the comparator; den is the unit of the
\* totals, so |scoreDiff| > 0.001 reads |diff| > den / 1000
Compare(a, b, den) ==
    LET scoreDiff == b.total - a.total
        abs == IF scoreDiff < 0 THEN 0 - scoreDiff ELSE scoreDiff
    IN  IF abs > den \div 1000 THEN scoreDiff ELSE b.maxScore - a.maxScore

\* Array.prototype.sort: a stable insertion sort under the comparator
RECURSIVE InsertSorted(_, _, _)
InsertSorted(sorted, x, den) ==
    IF sorted = <<>> THEN <<x>>
    ELSE LET last == sorted[Len(sorted)] IN
         IF Compare(last, x, den) > 0
         THEN Append(InsertSorted(SubSeq(sorted, 1, Len(sorted) - 1), x, den), last)
         ELSE Append(sorted, x)

\* database/actions.ts:278-285: sort, then keep the first ten
SortedParents(h) ==
    LET agg == Aggregate(h, 1, <<>>)
        RECURSIVE Sort(_)
        Sort(i) == IF i = 0 THEN <<>>
                   ELSE InsertSorted(Sort(i - 1), agg[i], RrfScale)
        all == Sort(Len(agg))
    IN  SubSeq(all, 1, IF Len(all) < TopParents THEN Len(all) ELSE TopParents)

NoText == <<"none", 0>>

\* the text of a ParentChunk row, named by its content and position
ParentTextOf(ref) == IF ref = NoText THEN <<>> ELSE ParentChunksOf[ref[1]][ref[2]]

\* embeddings.ts:399-408 and database/actions.ts:292-298: the parent texts
\* of the candidates; fetched is FALSE when getParentTexts failed
Intermediate(sorted, fetched) ==
    [i \in 1..Len(sorted) |->
        LET rows == {r \in parentChunkRows : r.id = sorted[i].parentChunkId}
        IN  [parentChunkId |-> sorted[i].parentChunkId,
             documentId |-> sorted[i].documentId,
             text |-> IF fetched /\ rows # {}
                      THEN LET r == CHOOSE x \in rows : TRUE
                           IN  <<r.content, r.parentIndex + 1>>
                      ELSE NoText,
             score |-> sorted[i].maxScore]]

\* a deduplication that lets results without text through
RECURSIVE UniqueKeepingEmpty(_, _, _)
UniqueKeepingEmpty(rs, i, seenTexts) ==
    IF i > Len(rs) THEN <<>>
    ELSE LET t == ParentTextOf(rs[i].text) IN
         IF t # <<>> /\ t \in seenTexts
         THEN UniqueKeepingEmpty(rs, i + 1, seenTexts)
         ELSE <<rs[i]>> \o UniqueKeepingEmpty(rs, i + 1, seenTexts \cup {t})

\* a deduplication that keeps everything
KeepAll(rs, i, seenTexts) == rs

\* database/actions.ts:301-308: only the first result of each parent text
RECURSIVE UniqueResults(_, _, _)
UniqueResults(rs, i, seenTexts) ==
    IF i > Len(rs) THEN <<>>
    ELSE LET t == ParentTextOf(rs[i].text) IN
         IF t = <<>> \/ t \in seenTexts
         THEN UniqueResults(rs, i + 1, seenTexts)
         ELSE <<rs[i]>> \o UniqueResults(rs, i + 1, seenTexts \cup {t})

\* embeddings.ts:552-556: what the reranker can answer for n documents: at
\* most n entries, each naming an index; index n is outside the documents
RerankReplies(n) == UNION {[1..m -> 0..n] : m \in 0..n}

\* a mapping that takes the candidates in their own order
RerankedInCandidateOrder(unique, reply) ==
    [k \in 1..Len(reply) |-> [unique[k] EXCEPT !.score = SimilarityAt(k - 1)]]

\* a mapping that keeps the score of the original result
RerankedKeepingScore(unique, reply) ==
    [k \in 1..Len(reply) |-> unique[reply[k] + 1]]

\* database/actions.ts:324-333
Reranked(unique, reply) ==
    [k \in 1..Len(reply) |->
        [unique[reply[k] + 1] EXCEPT !.score = SimilarityAt(k - 1)]]

\* a fallback that gives up and returns nothing
FallbackEmpty(c, rs) == [c EXCEPT !.pc = "done", !.result = "list", !.results = <<>>]

\* database/actions.ts:318-321: without reranked documents the original
\* results are returned
Fallback(c, rs) == [c EXCEPT !.pc = "done", !.result = "list", !.results = rs]

\* database/actions.ts:336-339: the outer catch logs and returns []
SearchCatch(c) == [c EXCEPT !.pc = "done", !.result = "list", !.results = <<>>,
                            !.caught = TRUE]

SearchReturn(c, rs) == [c EXCEPT !.pc = "done", !.result = "list", !.results = rs]

\* a failed query that is taken for an empty candidate list
QueryFailureIgnored(c, what) ==
    [Did(c, what) EXCEPT !.failedAt = what, !.pc = "fetch"]

\* embeddings.ts:467-470 and database/actions.ts:239-241: the catch of
\* querySimilarDocuments returns [], on which search returns []
QueryFailed(c, what) ==
    SearchReturn([Did(c, what) EXCEPT !.failedAt = what], <<>>)

\* database/actions.ts:211-218: a caller invokes search; a blank query
\* returns at once
StartSearch(s, q, k, tf) ==
    /\ CanStart(s)
    /\ calls' = [calls EXCEPT ![s] =
          LET c == [IdleCall EXCEPT !.op = "search", !.query = q, !.topK = k,
                                    !.typeFilter = tf, !.num = started + 1,
                                    !.pc = "embedQuery"]
          IN  IF Blank(q) THEN SearchReturn(c, <<>>) ELSE c]
    /\ started' = started + 1
    /\ UNCHANGED <<failures, callBudget, storeVars, splitVars>>

\* embeddings.ts:434-446: the query is embedded; a failure is caught by
\* querySimilarDocuments, which returns no hits (database/actions.ts:239)
SearchEmbedQuery(s) ==
    LET c == calls[s] IN
    /\ c.op = "search" /\ c.pc = "embedQuery"
    /\ \/ /\ MayFail
          /\ failures' = failures + 1
          /\ calls' = [calls EXCEPT ![s] = QueryFailed(c, "embed")]
       \/ /\ UNCHANGED failures
          /\ calls' = [calls EXCEPT ![s] = [Did(c, "embed") EXCEPT !.pc = "indexQuery"]]
    /\ UNCHANGED <<started, callBudget, storeVars, splitVars>>

\* embeddings.ts:449-470 and database/actions.ts:237-289: the index is
\* queried, the hits are fused by parent and the parent texts are asked for
SearchIndexQuery(s) ==
    LET c == calls[s] IN
    /\ c.op = "search" /\ c.pc = "indexQuery"
    /\ \/ /\ MayFail
          /\ failures' = failures + 1
          /\ calls' = [calls EXCEPT ![s] = QueryFailed(c, "index.query")]
       \/ /\ UNCHANGED failures
          /\ \E h \in HitLists(c.typeFilter, c.topK) :
                calls' = [calls EXCEPT ![s] =
                    IF h = <<>>
                    THEN SearchReturn(Did(c, "index.query"), <<>>)
                    ELSE [Did(c, "index.query") EXCEPT
                             !.pc = "fetch", !.hits = h,
                             !.candidates = SortedParents(h)]]
    /\ UNCHANGED <<started, callBudget, storeVars, splitVars>>

\* embeddings.ts:386-413 and database/actions.ts:289-316: the parent texts
\* arrive, the results are deduplicated and handed to the reranker
SearchFetch(s) ==
    LET c == calls[s]
        next(fetched) ==
            LET unique == UniqueResults(Intermediate(c.candidates, fetched), 1, {})
                d == [Did(c, "parentChunk.findMany") EXCEPT
                         !.intermediate = Intermediate(c.candidates, fetched),
                         !.unique = unique]
            IN  IF unique = <<>>
                THEN SearchReturn(d, <<>>)
                ELSE [d EXCEPT !.pc = "rerank"]
    IN
    /\ c.op = "search" /\ c.pc = "fetch"
    /\ \/ /\ MayFail
          /\ failures' = failures + 1
          /\ calls' = [calls EXCEPT ![s] = next(FALSE)]
       \/ /\ UNCHANGED failures
          /\ calls' = [calls EXCEPT ![s] = next(TRUE)]
    /\ UNCHANGED <<started, callBudget, storeVars, splitVars>>

\* embeddings.ts:526-560 and database/actions.ts:316-335: the reranker
\* answers; a failure is caught by rerankDocuments, which returns []
SearchRerank(s) ==
    LET c == calls[s]
        d == Did(c, "rerank")
        n == Len(c.unique)
    IN
    /\ c.op = "search" /\ c.pc = "rerank"
    /\ \/ /\ MayFail
          /\ failures' = failures + 1
          /\ calls' = [calls EXCEPT ![s] =
                Fallback([d EXCEPT !.rerank = "threw"], c.unique)]
       \/ /\ UNCHANGED failures
          /\ \E reply \in RerankReplies(n) :
                calls' = [calls EXCEPT ![s] =
                    IF reply = <<>>
                    THEN Fallback([d EXCEPT !.rerank = "empty"], c.unique)
                    ELSE IF \E k \in 1..Len(reply) : reply[k] >= n
                    \* original is undefined: a TypeError; a reply that is
                    \* mapped is kept in the call record
                    THEN SearchCatch([d EXCEPT !.rerank = "scored"])
                    ELSE SearchReturn([d EXCEPT !.rerank = "scored", !.reply = reply],
                                      Reranked(c.unique, reply))]
    /\ UNCHANGED <<started, callBudget, storeVars, splitVars>>

(***************************************************************************)
(* The specifications.                                                     *)
(***************************************************************************)
SplitInit == SplitStart /\ StoreInit /\ CallsInit

SpecSplit == SplitInit /\ [][SplitNext]_vars /\ WF_vars(SplitNext)

Init == SplitIdle /\ StoreInit /\ CallsInit

Next ==
    \/ \E s \in Slots, d \in Docs, cid \in ContentIds : StartIngest(s, d, cid)
    \/ \E s \in Slots : IngestLookup(s)
    \/ \E s \in Slots : IngestDeleteRagChunks(s)
    \/ \E s \in Slots : IngestDeleteParentChunks(s)
    \/ \E s \in Slots, k \in 1..3 : ParentCreate(s, k)
    \/ \E s \in Slots, k \in 1..3 : ParentChildSplit(s, k)
    \/ \E s \in Slots, k \in 1..3 : ParentEmbed(s, k)
    \/ \E s \in Slots, k \in 1..3 : ParentUpsert(s, k)
    \/ \E s \in Slots, k \in 1..3 : ParentCreateMany(s, k)
    \/ \E s \in Slots : IngestFanOut(s)
    \/ \E s \in Slots : IngestMark(s)
    \/ \E s \in Slots, d \in Docs : StartDelete(s, d)
    \/ \E s \in Slots : DeleteFindChunks(s)
    \/ \E s \in Slots : DeleteVectors(s)
    \/ \E s \in Slots : DeleteParentChunks(s)
    \/ \E s \in Slots : DeleteUnmark(s)

Spec == Init /\ [][Next]_vars

InitApi == SplitIdle /\ StoreInit /\ ApiCallsInit

SearchNext ==
    \/ \E s \in Slots, q \in Queries, k \in 1..MaxTopK, tf \in TypeFilters :
          StartSearch(s, q, k, tf)
    \/ \E s \in Slots : SearchEmbedQuery(s)
    \/ \E s \in Slots : SearchIndexQuery(s)
    \/ \E s \in Slots : SearchFetch(s)
    \/ \E s \in Slots : SearchRerank(s)

NextApi == Next \/ SearchNext

SpecApi == InitApi /\ [][NextApi]_vars

(***************************************************************************)
(* The fusion of a list of child hits, on its own.                         *)
(***************************************************************************)
\* database/actions.ts:213  topK: number = 50
DefaultTopK == 50

\* the lengths of the hit lists and the ranks at which the two parents under
\* comparison are placed
ListLengths == {4, 5, DefaultTopK}

SampleRanks(n) ==
    {r \in 0..(n - 1) : r < 3 \/ r >= n - 3 \/ r % RankStride = 0}

\* how many consecutive remaining hits belong to one and the same parent
FillerGroups == {1, 2, DefaultTopK}

\* a list of n hits: parent <<1, 0>> owns the ranks in own3, parent <<1, 1>>
\* the rank own1, and the other ranks go to further parents, g in a row
HitListOf(n, own3, own1, g) ==
    [i \in 1..n |->
        LET r == i - 1
            before == Cardinality({q \in 0..(r - 1) : q \notin own3 \cup {own1}})
        IN  IF r \in own3 THEN <<<<1, 0>>, "d1">>
            ELSE IF r = own1 THEN <<<<1, 1>>, "d1">>
            ELSE <<<<1, 2 + (before \div g)>>, "d1">>]

InitRrf ==
    /\ SplitIdle /\ StoreInit
    /\ started = 1 /\ failures = 0 /\ callBudget = 1
    /\ \E n \in ListLengths, g \in FillerGroups :
       \E a \in {t \in SampleRanks(n) \X SampleRanks(n) \X SampleRanks(n) :
                    t[1] < t[2] /\ t[2] < t[3]} :
       \E b \in SampleRanks(n) \ {a[1], a[2], a[3]} :
          calls = [s \in Slots |->
              IF s = 1
              THEN [IdleCall EXCEPT !.op = "search", !.pc = "rank", !.num = 1,
                                    !.query = <<"f", "l", "u">>, !.topK = n,
                                    !.typeFilter = "all",
                                    !.hits = HitListOf(n, {a[1], a[2], a[3]}, b, g)]
              ELSE IdleCall]

\* database/actions.ts:243-285: the hits are fused by parent and sorted
RankHits(s) ==
    LET c == calls[s] IN
    /\ c.op = "search" /\ c.pc = "rank"
    /\ calls' = [calls EXCEPT ![s] =
          [c EXCEPT !.pc = "ranked", !.candidates = SortedParents(c.hits)]]
    /\ UNCHANGED <<started, failures, callBudget, storeVars, splitVars>>

NextRrf == \E s \in Slots : RankHits(s)

SpecRrf == InitRrf /\ [][NextRrf]_vars

\* the ranks of the second hit of each of three parents whose first hits
\* are the ranks 0, 1 and 2 of a list of DefaultTopK hits
SecondRanks == [p \in 0..2 |-> CASE p = 0 -> 46..49
                                 [] p = 1 -> 41..45
                                 [] p = 2 -> 30..36]

\* a list of DefaultTopK hits: parent <<1, p>> owns rank p and rank second[p],
\* every other rank belongs to a parent of its own
TwoHitListOf(second) ==
    [i \in 1..DefaultTopK |->
        LET r == i - 1 IN
        IF r <= 2 THEN <<<<1, r>>, "d1">>
        ELSE IF \E p \in 0..2 : second[p] = r
        THEN <<<<1, CHOOSE p \in 0..2 : second[p] = r>>, "d1">>
        ELSE <<<<1, r>>, "d1">>]

InitTop ==
    /\ SplitIdle /\ StoreInit
    /\ started = 1 /\ failures = 0 /\ callBudget = 1
    /\ \E second \in [0..2 -> 30..49] :
          /\ \A p \in 0..2 : second[p] \in SecondRanks[p]
          /\ calls = [s \in Slots |->
                IF s = 1
                THEN [IdleCall EXCEPT !.op = "search", !.pc = "rank", !.num = 1,
                                      !.query = <<"f", "l", "u">>,
                                      !.topK = DefaultTopK, !.typeFilter = "all",
                                      !.hits = TwoHitListOf(second)]
                ELSE IdleCall]

SpecTop == InitTop /\ [][NextRrf]_vars

(***************************************************************************)
(* One ingest of a text with a very long section.                          *)
(***************************************************************************)
InitLong ==
    /\ SplitIdle /\ StoreInit
    /\ \A c \in LongContentIds :
          textSplitterForRag(ContentText(c), DefaultMaxLength) = LongParentChunks(c)
    /\ calls = [s \in Slots |-> IdleCall]
    /\ started = 0 /\ failures = 0 /\ callBudget = 1

NextLong ==
    \/ \E s \in Slots, d \in Docs, cid \in LongContentIds : StartIngest(s, d, cid)
    \/ \E s \in Slots : IngestLookup(s)
    \/ \E s \in Slots : IngestDeleteRagChunks(s)
    \/ \E s \in Slots : IngestDeleteParentChunks(s)
    \/ \E s \in Slots, k \in 1..3 : ParentCreate(s, k)
    \/ \E s \in Slots, k \in 1..3 : ParentChildSplit(s, k)
    \/ \E s \in Slots, k \in 1..3 : ParentEmbed(s, k)
    \/ \E s \in Slots, k \in 1..3 : ParentUpsert(s, k)
    \/ \E s \in Slots, k \in 1..3 : ParentCreateMany(s, k)
    \/ \E s \in Slots : IngestFanOut(s)
    \/ \E s \in Slots : IngestMark(s)

SpecLong == InitLong /\ [][NextLong]_vars

InitDocs == SplitIdle /\ StoreInit /\ DocCallsInit

DocsNext ==
    \/ \E s \in Slots, d \in Docs : StartReembed(s, d)
    \/ \E s \in Slots, cid \in ContentIds : ReembedLookup(s, cid)
    \/ \E s \in Slots : ReembedIngest(s)
    \/ \E s \in Slots : ReembedReturn(s)
    \/ \E s \in Slots, d \in Docs, h \in DeleteHandlers : StartDeleteDocument(s, d, h)
    \/ \E s \in Slots : DeleteDocumentRow(s)

NextDocs == Next \/ DocsNext

SpecDocs == InitDocs /\ [][NextDocs]_vars

(***************************************************************************)
(* Calls that overlap: a second call starts while the first one runs.     *)
(***************************************************************************)
CanStartBeside(s) ==
    /\ s = 2
    /\ InFlight(calls[1]) /\ ~InFlight(calls[2])
    /\ started < callBudget

\* a second caller invokes ingest while another call is running
StartIngestBeside(s, d, cid) ==
    /\ CanStartBeside(s)
    /\ calls' = [calls EXCEPT ![s] =
          [IdleCall EXCEPT !.op = "ingest", !.doc = d, !.content = cid,
                           !.pc = "lookup", !.num = started + 1,
                           !.flagAtStart = isIngested[d]]]
    /\ started' = started + 1
    /\ UNCHANGED <<failures, callBudget, storeVars, splitVars>>

\* a second caller invokes deleteVectors while another call is running
StartDeleteBeside(s, d) ==
    /\ CanStartBeside(s)
    /\ calls' = [calls EXCEPT ![s] =
          [IdleCall EXCEPT !.op = "delete", !.doc = d, !.pc = "findChunks",
                           !.num = started + 1, !.flagAtStart = isIngested[d]]]
    /\ started' = started + 1
    /\ UNCHANGED <<failures, callBudget, storeVars, splitVars>>

\* the store after call number 1, ingest("d1", "# A\nxx"), has succeeded
IngestedStore ==
    LET c == [IdleCall EXCEPT !.op = "ingest", !.doc = "d1", !.content = "one",
                              !.num = 1,
                              !.parents = <<[NewParent EXCEPT !.rowId = <<1, 0>>]>>]
    IN  /\ documents = Docs
        /\ isIngested = [d \in Docs |-> d = "d1"]
        /\ parentChunkRows = {[id |-> <<1, 0>>, documentId |-> "d1",
                                parentIndex |-> 0, content |-> "one"]}
        /\ ragChunkRows = RagChunksOf(c, 1)
        /\ vectorIndex = VectorsOf(c, 1)

InitPar ==
    /\ SplitIdle
    /\ calls = [s \in Slots |-> IdleCall]
    /\ failures = 0
    /\ \/ StoreInit /\ started = 0
       \/ IngestedStore /\ started = 1
    /\ callBudget = started + MaxParCalls

\* the texts handed to the calls that overlap: those of a single parent
ParContentIds == {"empty", "one"}

\* the steps of the three routines, whoever called them
StepNext ==
    \/ \E s \in Slots : IngestLookup(s)
    \/ \E s \in Slots : IngestDeleteRagChunks(s)
    \/ \E s \in Slots : IngestDeleteParentChunks(s)
    \/ \E s \in Slots, k \in 1..3 : ParentCreate(s, k)
    \/ \E s \in Slots, k \in 1..3 : ParentChildSplit(s, k)
    \/ \E s \in Slots, k \in 1..3 : ParentEmbed(s, k)
    \/ \E s \in Slots, k \in 1..3 : ParentUpsert(s, k)
    \/ \E s \in Slots, k \in 1..3 : ParentCreateMany(s, k)
    \/ \E s \in Slots : IngestFanOut(s)
    \/ \E s \in Slots : IngestMark(s)
    \/ \E s \in Slots : DeleteFindChunks(s)
    \/ \E s \in Slots : DeleteVectors(s)
    \/ \E s \in Slots : DeleteParentChunks(s)
    \/ \E s \in Slots : DeleteUnmark(s)
    \/ \E s \in Slots : SearchEmbedQuery(s)
    \/ \E s \in Slots : SearchIndexQuery(s)
    \/ \E s \in Slots : SearchFetch(s)
    \/ \E s \in Slots : SearchRerank(s)

NextPar ==
    \/ StepNext
    \/ \E s \in Slots, d \in Docs, cid \in ParContentIds : StartIngest(s, d, cid)
    \/ \E s \in Slots, d \in Docs : StartDelete(s, d)
    \/ \E s \in Slots, k \in 1..MaxTopK : StartSearch(s, <<"f", "l", "u">>, k, "all")
    \/ \E s \in Slots, d \in Docs, cid \in ParContentIds : StartIngestBeside(s, d, cid)
    \/ \E s \in Slots, d \in Docs : StartDeleteBeside(s, d)

SpecPar == InitPar /\ [][NextPar]_vars

(***************************************************************************)
(* Properties of textSplitterForRag (checked under SpecSplit).             *)
(***************************************************************************)
Segments == output[1]

\* positions of text at which any of the four heading markers starts
MarkerStarts(s) == {q \in 1..Len(s) : \E k \in 1..Len(headers) : OccursAt(s, headers[k], q)}

\* a marker occurs in s at a position after its first character
HasInnerMarker(s) == MarkerStarts(s) \ {1} # {}

\* the stretches of text between consecutive heading markers
Stretches(s) == PartsFrom(s, MarkerStarts(s) \ {1}, 1)

\* C1: concatenating the returned segments in order yields exactly the input
\* text, for every text and every maxLength >= 1 (nothing lost, duplicated or
\* reordered; the heading markers stay in the output).
C1_ConcatIsInput == SplitDone => Flatten(Segments) = text

\* a run that cut the text at a heading marker into several segments
C1_Witness ==
    /\ SplitDone /\ Len(Segments) >= 3
    /\ \E k \in 2..Len(Segments) : OccursAt(Segments[k], headers[2], 1)

StackOK ==
    /\ Len(stack) <= Len(headers) + 1
    /\ maxDepth <= Len(headers)
    /\ \A k \in 1..Len(stack) :
          /\ stack[k].headerLevel = k - 1
          /\ k < Len(stack) => stack[k + 1].headerLevel > stack[k].headerLevel
          /\ stack[k].headerLevel >= Len(headers)
                => k = Len(stack) /\ stack[k].pc = "entry"

\* C3: textSplitterForRag terminates on every input, and the nesting depth
\* of recursive splitByHeader calls never exceeds the number of heading
\* levels (4): each recursive call has a strictly larger level and a call at
\* level 4 returns without recursing.
C3_TerminatesInBoundedDepth == <>SplitDone /\ []StackOK

\* a run that went down all four levels and returned
C3_Witness == SplitDone /\ maxDepth = Len(headers) /\ Len(Segments) >= 2

(***************************************************************************)
(* Ingest and deleteVectors.                                               *)
(***************************************************************************)
IngestCalls == {s \in Slots : calls[s].op = "ingest"}

DeleteCalls == {s \in Slots : calls[s].op = "delete"}

SearchCalls == {s \in Slots : calls[s].op = "search"}

Returned(s) == calls[s].pc = "done"

ParentIndexes(s) == 1..Len(calls[s].parents)

VectorsOfDoc(d) == {v \in vectorIndex : v.documentId = d}

ParentRowsOfDoc(d) == {r \in parentChunkRows : r.documentId = d}

LinkRowsOfDoc(d) == {r \in ragChunkRows : r.documentId = d}

\* C4 (as stated): ingest on a document whose flag is already true returns
\* true and performs no write: no relational delete or create, no embedding
\* call, no vector upsert, no flag update.
C4_ReturnsTrueWithoutWrite ==
    \A s \in IngestCalls :
        calls[s].flagAtStart =>
            /\ calls[s].effects = {}
            /\ Returned(s) => calls[s].result = "true"

\* C4 (amended): ingest on a document whose flag is already true performs no
\* write in any case, and returns true unless the initial lookup itself
\* fails, in which case it returns false.
C4_NoWriteWhenIngested ==
    /\ [](\A s \in IngestCalls :
            calls[s].flagAtStart =>
                /\ calls[s].effects = {}
                /\ ~calls[s].didMark
                /\ Returned(s) =>
                      calls[s].result = IF calls[s].caught THEN "false" ELSE "true")
    /\ [][(\E s \in IngestCalls : calls[s].flagAtStart /\ InFlight(calls[s]))
            => UNCHANGED storeVars]_vars

C4_Witness ==
    \E s \in IngestCalls :
        /\ calls[s].flagAtStart /\ Returned(s)
        /\ calls[s].result = "true" /\ calls[s].effects = {}
        /\ VectorsOfDoc(calls[s].doc) # {}

\* the document d holds every parent, vector and link of the content cid
Complete(d, cid) ==
    /\ Len(ParentChunksOf[cid]) > 0
    /\ \A k \in 1..Len(ParentChunksOf[cid]) :
          \E r \in ParentRowsOfDoc(d) :
              /\ r.parentIndex = k - 1 /\ r.content = cid
              /\ \A j \in 1..ChildCountOf[cid][k] :
                    /\ \E v \in VectorsOfDoc(d) :
                          /\ v.id = PineconeId(d, k - 1, j - 1)
                          /\ v.parentChunkId = r.id /\ v.content = cid
                    /\ \E l \in LinkRowsOfDoc(d) :
                          /\ l.pineconeId = PineconeId(d, k - 1, j - 1)
                          /\ l.parentChunkId = r.id

\* C5 (as stated): the flag of a document is true only if every parent
\* segment has its ParentChunk row, all its child vectors and all its
\* ChildChunkLink rows persisted, in every reachable state.
C5_FlagImpliesComplete ==
    \A d \in Docs : isIngested[d] => \E cid \in ContentIds : Complete(d, cid)

\* C5 (amended): when ingest has set the flag, every parent segment was
\* attempted and has finished, and each parent whose steps all succeeded has
\* its ParentChunk row, all its child vectors and all its ChildChunkLink
\* rows persisted; a parent whose processing failed may have none of them.
C5_FlagAfterEveryAttempt ==
    \A s \in IngestCalls :
        (Returned(s) /\ calls[s].didMark) =>
            /\ isIngested[calls[s].doc]
            /\ \A k \in ParentIndexes(s) :
                  LET p == calls[s].parents[k]
                      d == calls[s].doc
                      n == ChildCountOf[calls[s].content][k]
                  IN  /\ p.pc = "done" /\ p.attempts = 1
                      /\ p.stored =>
                            /\ \E r \in ParentRowsOfDoc(d) :
                                  r.id = p.rowId /\ r.parentIndex = k - 1
                            /\ Cardinality({v \in VectorsOfDoc(d) :
                                              v.parentChunkId = p.rowId}) = n
                            /\ Cardinality({l \in LinkRowsOfDoc(d) :
                                              l.parentChunkId = p.rowId}) = n
                            /\ n > 0

C5_Witness ==
    \E s \in IngestCalls :
        /\ Returned(s) /\ calls[s].didMark /\ isIngested[calls[s].doc]
        /\ \E k \in ParentIndexes(s) : calls[s].parents[k].stored
        /\ \E k \in ParentIndexes(s) : calls[s].parents[k].failed

\* C6: the flag update to true happens only after the processing of every
\* parent segment has finished, by success or by a caught failure; it
\* happens even when parents failed, and ingest then still returns true.
C6_MarkAfterAllParents ==
    [][\A d \in Docs :
          (~isIngested[d] /\ isIngested'[d]) =>
              \E s \in IngestCalls :
                  /\ calls[s].doc = d
                  /\ Len(calls[s].parents) > 0
                  /\ \A k \in ParentIndexes(s) : calls[s].parents[k].pc = "done"
                  /\ calls'[s].pc = "done"
                  /\ calls'[s].result = "true"]_vars

C6_Witness ==
    \E s \in IngestCalls :
        /\ Returned(s) /\ calls[s].didMark /\ calls[s].result = "true"
        /\ ~calls[s].flagAtStart /\ isIngested[calls[s].doc]
        /\ Len(calls[s].parents) = 3
        /\ calls[s].parents[2].failed

\* C7: a failure of any step of one parent's processing does not prevent
\* any other parent of the same call from being processed: no parent is
\* attempted twice, and in every run that gets past the cleanup step every
\* parent is attempted exactly once and runs to its end.
C7_EveryParentAttemptedOnce ==
    \A s \in IngestCalls :
        /\ \A k \in ParentIndexes(s) : calls[s].parents[k].attempts <= 1
        /\ (Returned(s) /\ calls[s].pastCleanup) =>
              \A k \in ParentIndexes(s) :
                  /\ calls[s].parents[k].attempts = 1
                  /\ calls[s].parents[k].pc = "done"

C7_Witness ==
    \E s \in IngestCalls :
        /\ Returned(s) /\ calls[s].pastCleanup
        /\ Len(calls[s].parents) = 3
        /\ calls[s].parents[1].failed
        /\ calls[s].parents[2].stored /\ calls[s].parents[3].stored

C9_FalseMeansNotMarked ==
    \A s \in IngestCalls :
        (Returned(s) /\ calls[s].result = "false") =>
            /\ ~calls[s].didMark
            /\ isIngested[calls[s].doc] = calls[s].flagAtStart

C9_Witness ==
    \E s \in IngestCalls :
        /\ Returned(s) /\ calls[s].result = "false"
        /\ "document.update" \in calls[s].effects
        /\ ~isIngested[calls[s].doc]
        /\ VectorsOfDoc(calls[s].doc) # {}

\* C10: after deleteVectors(documentId) returns true, the vector index holds
\* no entry of that document, the relational store holds no ParentChunk and
\* no ChildChunkLink row for it, and its flag is false.
C10_DeleteLeavesNothing ==
    \A s \in DeleteCalls :
        (Returned(s) /\ calls[s].result = "true") =>
            /\ VectorsOfDoc(calls[s].doc) = {}
            /\ ParentRowsOfDoc(calls[s].doc) = {}
            /\ LinkRowsOfDoc(calls[s].doc) = {}
            /\ ~isIngested[calls[s].doc]

\* what does hold after deleteVectors returns true: no relational row of
\* the document is left, no vector named by one of its link rows is left,
\* and the flag is false
C10_DeleteLeavesNoRow ==
    \A s \in DeleteCalls :
        (Returned(s) /\ calls[s].result = "true") =>
            /\ ParentRowsOfDoc(calls[s].doc) = {}
            /\ LinkRowsOfDoc(calls[s].doc) = {}
            /\ \A v \in VectorsOfDoc(calls[s].doc) : v.id \notin calls[s].ids
            /\ ~isIngested[calls[s].doc]

C10_Witness ==
    \E s \in DeleteCalls :
        /\ Returned(s) /\ calls[s].result = "true"
        /\ VectorsOfDoc(calls[s].doc) # {}
        /\ LinkRowsOfDoc(calls[s].doc) = {}

(***************************************************************************)
(* Re-ingestion, search and document deletion.                             *)
(***************************************************************************)
RECURSIVE SumChildren(_, _)
SumChildren(cid, k) ==
    IF k = 0 THEN 0 ELSE ChildCountOf[cid][k] + SumChildren(cid, k - 1)

\* the rows a first ingestion of content cid leaves when nothing fails
ParentCountOf(cid) == Len(ParentChunksOf[cid])

LinkCountOf(cid) == SumChildren(cid, Len(ParentChunksOf[cid]))

RowCountsAre(d, cid) ==
    /\ Cardinality(ParentRowsOfDoc(d)) = ParentCountOf(cid)
    /\ Cardinality(LinkRowsOfDoc(d)) = LinkCountOf(cid)

\* C11: without collaborator failure, deleteVectors followed by ingest on a
\* previously ingested document leaves exactly as many ParentChunk and
\* ChildChunkLink rows as a first ingestion of the same content on a fresh
\* document; no row of the earlier run survives and none is duplicated.
C11_ReplaceSemantics ==
    \A s \in IngestCalls :
        (Returned(s) /\ calls[s].didMark /\ failures = 0) =>
            \* a first ingestion on a fresh document
            /\ (calls[s].num = 1 /\ calls[s].handler = "none") =>
                  RowCountsAre(calls[s].doc, calls[s].content)
            \* deleteVectors, then ingest, on an ingested document
            /\ (calls[s].handler = "reembedDocument" /\ calls[s].ingestedBefore) =>
                  /\ RowCountsAre(calls[s].doc, calls[s].content)
                  /\ \A r \in ParentRowsOfDoc(calls[s].doc) : r.id[1] = calls[s].num
                  /\ \A l \in LinkRowsOfDoc(calls[s].doc) :
                        l.parentChunkId[1] = calls[s].num

C11_Witness ==
    \E s \in IngestCalls :
        /\ Returned(s) /\ calls[s].didMark /\ failures = 0
        /\ calls[s].handler = "reembedDocument" /\ calls[s].ingestedBefore
        /\ calls[s].outcome = "success"
        /\ calls[s].content = "three"
        /\ Cardinality(LinkRowsOfDoc(calls[s].doc)) = 21

PatientEntries == {v \in vectorIndex : v.type = "patient"}

\* C12: for every value of typeFilter a caller can pass, "patient" included,
\* the metadata filter matches no entry written by the patient-scoped
\* ingest, so no patient-scoped parent chunk appears in the result.
C12_NoPatientResult ==
    \A s \in SearchCalls :
        /\ \A v \in PatientEntries : ~FilterMatches(calls[s].typeFilter, v)
        /\ \A i \in 1..Len(calls[s].candidates) :
              DocType(calls[s].candidates[i].documentId) # "patient"
        /\ \A i \in 1..Len(calls[s].results) :
              DocType(calls[s].results[i].documentId) # "patient"

\* a search with typeFilter "patient" has returned a patient-scoped chunk
C12_Witness ==
    \E s \in SearchCalls :
        /\ Returned(s) /\ calls[s].typeFilter = "patient"
        /\ calls[s].results # <<>>
        /\ DocType(calls[s].results[1].documentId) = "patient"

\* C13: search on a query that is empty or only whitespace returns an empty
\* sequence without calling the embedding client, the vector index, the
\* relational store or the reranker.
C13_BlankQueryReturnsEmpty ==
    \A s \in SearchCalls :
        (\A i \in 1..Len(calls[s].query) : calls[s].query[i] \in {" ", "\n"}) =>
            /\ Returned(s)
            /\ calls[s].results = <<>>
            /\ calls[s].effects = {}
            /\ ~calls[s].caught

C13_Witness ==
    \E s \in SearchCalls :
        /\ calls[s].query = <<" ", "\n">>
        /\ Returned(s) /\ calls[s].results = <<>> /\ calls[s].effects = {}
        /\ vectorIndex # {}

\* the hits of list h that belong to parent p
HitsOwned(h, p) == Cardinality({i \in 1..Len(h) : h[i][1] = p})

PositionsOf(cands, p) == {i \in 1..Len(cands) : cands[i].parentChunkId = p}

\* C14: with each hit at zero-based rank i contributing 1/(i+60), for every
\* list of at most 50 child hits a parent that owns 3 of the hits precedes a
\* parent that owns exactly 1 of them in the pre-rerank order, whatever the
\* ranks of those hits are.
C14_ThreeHitsBeforeOne ==
    \A s \in SearchCalls :
        (calls[s].pc \in {"ranked", "fetch"} /\ Len(calls[s].hits) <= 50) =>
            LET h == calls[s].hits
                owners == {h[i][1] : i \in 1..Len(h)}
            IN  \A p, q \in owners :
                    (HitsOwned(h, p) = 3 /\ HitsOwned(h, q) = 1) =>
                        \A j \in PositionsOf(calls[s].candidates, q) :
                            \E i \in PositionsOf(calls[s].candidates, p) : i < j

\* the three hits are the last three of fifty and the single hit is the
\* first: the closest the two totals can come
C14_Witness ==
    \E s \in SearchCalls :
        /\ calls[s].pc = "ranked" /\ Len(calls[s].hits) = 50
        /\ calls[s].hits[1][1] = <<1, 1>>
        /\ \A i \in 48..50 : calls[s].hits[i][1] = <<1, 0>>
        /\ PositionsOf(calls[s].candidates, <<1, 0>>) = {2}
        /\ PositionsOf(calls[s].candidates, <<1, 1>>) = {3}

SameText(a, b) == ParentTextOf(a.text) = ParentTextOf(b.text)

IdsOf(rs) == {rs[i].parentChunkId : i \in 1..Len(rs)}

\* C15: when two distinct parent-chunk ids among the top candidates have
\* identical parentText, the returned sequence contains at most one of
\* them, the one that comes first in the RRF order; deduplication leaves the
\* relative order of the surviving candidates unchanged.
C15_FirstOfEqualTextsWins ==
    \A s \in SearchCalls :
        LET im == calls[s].intermediate
            u == calls[s].unique
        IN  /\ \A j \in 1..Len(im) :
                  (\E i \in 1..(j - 1) :
                       /\ im[i].parentChunkId # im[j].parentChunkId
                       /\ SameText(im[i], im[j])) =>
                      /\ im[j].parentChunkId \notin IdsOf(u)
                      /\ im[j].parentChunkId \notin IdsOf(calls[s].results)
            /\ \A a, b \in 1..Len(u) :
                  a < b =>
                      \E i, j \in 1..Len(im) : i < j /\ im[i] = u[a] /\ im[j] = u[b]
            /\ IdsOf(calls[s].results) \subseteq IdsOf(u)

C15_Witness ==
    \E s \in SearchCalls :
        LET im == calls[s].intermediate IN
        /\ Returned(s) /\ Len(im) = 2
        /\ im[1].parentChunkId # im[2].parentChunkId
        /\ ParentTextOf(im[1].text) # <<>> /\ SameText(im[1], im[2])
        /\ IdsOf(calls[s].results) = {im[1].parentChunkId}

\* C16: when the reranker returns an empty sequence, also because the rerank
\* call threw, and the deduplicated candidate list is non-empty, search
\* returns exactly that list: same elements, same order, not an empty result.
C16_RerankFallback ==
    \A s \in SearchCalls :
        (Returned(s) /\ calls[s].rerank \in {"threw", "empty"}) =>
            /\ calls[s].unique # <<>>
            /\ calls[s].results = calls[s].unique
            /\ calls[s].results =
                  UniqueResults(calls[s].intermediate, 1, {})
            /\ ~calls[s].caught

C16_Witness ==
    \E s \in SearchCalls :
        /\ Returned(s) /\ calls[s].rerank = "threw"
        /\ Len(calls[s].unique) = 2
        /\ calls[s].results = calls[s].unique

NonIncreasing(rs) ==
    \A i \in 1..(Len(rs) - 1) : rs[i].score >= rs[i + 1].score

\* C17 (as stated): in every sequence returned by search the score fields
\* are non-increasing from the first result to the last, both when the
\* result comes from the reranker and when it is the fallback list.
C17_ScoresNonIncreasing ==
    \A s \in SearchCalls : Returned(s) => NonIncreasing(calls[s].results)

\* C17 (amended): a sequence that comes from the reranker, which returns its
\* entries sorted best-first, has non-increasing score fields; the fallback
\* list keeps the order of the fused candidates and carries as score each
\* parent's largest child similarity, which that order does not follow.
C17_RerankedScoresNonIncreasing ==
    \A s \in SearchCalls :
        Returned(s) =>
            /\ calls[s].rerank = "scored" => NonIncreasing(calls[s].results)
            /\ calls[s].rerank \in {"threw", "empty"} =>
                  /\ \A a, b \in 1..Len(calls[s].results) :
                        a < b =>
                            \E i, j \in 1..Len(calls[s].candidates) :
                                /\ i < j
                                /\ calls[s].candidates[i].parentChunkId =
                                      calls[s].results[a].parentChunkId
                                /\ calls[s].candidates[j].parentChunkId =
                                      calls[s].results[b].parentChunkId
                  /\ \A a \in 1..Len(calls[s].results) :
                        \E i \in 1..Len(calls[s].candidates) :
                            /\ calls[s].candidates[i].parentChunkId =
                                  calls[s].results[a].parentChunkId
                            /\ calls[s].candidates[i].maxScore =
                                  calls[s].results[a].score

\* the reranker has put the candidates in a new order, with its own scores
C17_Witness ==
    \E s \in SearchCalls :
        /\ Returned(s) /\ calls[s].rerank = "scored"
        /\ Len(calls[s].results) = 2
        /\ calls[s].results[1].parentChunkId = calls[s].unique[2].parentChunkId
        /\ calls[s].results[2].parentChunkId = calls[s].unique[1].parentChunkId
        /\ calls[s].results[1].score > calls[s].results[2].score
        /\ calls[s].unique[1].score > calls[s].unique[2].score

\* C18: when embedding the query fails or the vector-index query fails,
\* search returns an empty sequence and performs no relational fetch and no
\* rerank call.
C18_QueryFailureReturnsEmpty ==
    \A s \in SearchCalls :
        calls[s].failedAt \in {"embed", "index.query"} =>
            /\ Returned(s)
            /\ calls[s].results = <<>>
            /\ "parentChunk.findMany" \notin calls[s].effects
            /\ "rerank" \notin calls[s].effects
            /\ calls[s].failedAt = "embed" => "index.query" \notin calls[s].effects

C18_Witness ==
    \E s \in SearchCalls :
        /\ calls[s].failedAt = "index.query" /\ Returned(s)
        /\ calls[s].results = <<>>
        /\ calls[s].effects = {"embed", "index.query"}
        /\ \E v \in vectorIndex : FilterMatches(calls[s].typeFilter, v)

DocumentActions == {s \in Slots : calls[s].handler \in DeleteHandlers}

\* C19: after every operation that deletes a document and reports success
\* (deleteDocument, deleteUserDocument), the vector index holds no entry
\* whose metadata documentId is the deleted document, also when
\* deleteVectors failed internally and returned false.
C19_DeletedDocumentLeavesNoVector ==
    \A s \in DocumentActions :
        calls[s].outcome = "success" =>
            /\ calls[s].doc \notin documents
            /\ VectorsOfDoc(calls[s].doc) = {}

\* deleteUserDocument has deleted an ingested patient document and reported
\* success, and the vectors of the document are still in the index
C19_Witness ==
    \E s \in DocumentActions :
        /\ calls[s].handler = "deleteUserDocument" /\ calls[s].outcome = "success"
        /\ calls[s].ingestedBefore /\ failures = 0
        /\ DocType(calls[s].doc) = "patient"
        /\ calls[s].doc \notin documents
        /\ ParentRowsOfDoc(calls[s].doc) = {} /\ LinkRowsOfDoc(calls[s].doc) = {}
        /\ VectorsOfDoc(calls[s].doc) # {}

\* C20: in every run of ingest with more than one parent segment, parent 0
\* has finished, by success or by caught failure, before the first step of
\* any parent 1..N starts, and the cleanup deletes of the existing
\* ChildChunkLink and ParentChunk rows have finished before parent 0 starts.
C20_WarmUpThenFanOut ==
    \A s \in IngestCalls :
        /\ (\E k \in ParentIndexes(s) : k > 1 /\ calls[s].parents[k].pc # "new") =>
              calls[s].parents[1].pc = "done"
        /\ (\E k \in ParentIndexes(s) : calls[s].parents[k].pc # "new") =>
              /\ "ragChunk.deleteMany" \in calls[s].effects
              /\ "parentChunk.deleteMany" \in calls[s].effects
              /\ calls[s].pastCleanup
        /\ (calls[s].parents # <<>> /\ calls[s].parents[1].pc = "new") =>
              calls[s].effects \subseteq
                  {"ragChunk.deleteMany", "parentChunk.deleteMany"}

C20_Witness ==
    \E s \in IngestCalls :
        /\ Len(calls[s].parents) = 3
        /\ calls[s].parents[1].pc = "done" /\ calls[s].parents[1].failed
        /\ calls[s].parents[2].pc = "embed"
        /\ calls[s].parents[3].pc = "done" /\ calls[s].parents[3].stored

(***************************************************************************)
(* Concurrency of the parents, keys and step order.                        *)
(***************************************************************************)
\* the ParentChunk row that parent k of call c creates
ParentRowOf(c, k) ==
    [id |-> <<c.num, k - 1>>, documentId |-> c.doc,
     parentIndex |-> k - 1, content |-> c.content]

Created(c) == {k \in 1..Len(c.parents) : c.parents[k].rowId # <<0, 0>>}

Upserted(c) == {k \in 1..Len(c.parents) : c.parents[k].upserted}

Stored(c) == {k \in 1..Len(c.parents) : c.parents[k].stored}

\* C21: for a fixed content and a fixed outcome of each parent, the state
\* ingest leaves is the same for every order in which the parents 1..N
\* interleave and complete: the ParentChunk rows, the ChildChunkLink rows,
\* the vector entries and the flag are a function of the content and of how
\* far each parent got.
C21_StateIsFunctionOfOutcomes ==
    \A s \in IngestCalls :
        (Returned(s) /\ calls[s].pastCleanup) =>
            LET c == calls[s]
                d == calls[s].doc
            IN  /\ ParentRowsOfDoc(d) = {ParentRowOf(c, k) : k \in Created(c)}
                /\ LinkRowsOfDoc(d) = UNION {RagChunksOf(c, k) : k \in Stored(c)}
                /\ {v \in VectorsOfDoc(d) : v.parentChunkId[1] = c.num}
                      = UNION {VectorsOf(c, k) : k \in Upserted(c)}
                \* entries of earlier runs stay where this run wrote nothing
                /\ \A v \in VectorsOfDoc(d) :
                      v.parentChunkId[1] # c.num =>
                          \A k \in Upserted(c) : \A w \in VectorsOf(c, k) : w.id # v.id
                /\ isIngested[d] = c.didMark

\* parents 1 and 2 ran side by side; parent 1 got as far as the upsert
C21_Witness ==
    \E s \in IngestCalls :
        /\ Returned(s) /\ calls[s].didMark /\ Len(calls[s].parents) = 3
        /\ Stored(calls[s]) = {1, 3}
        /\ Upserted(calls[s]) = {1, 2, 3}
        /\ Cardinality(VectorsOfDoc(calls[s].doc)) = 21
        /\ Cardinality(LinkRowsOfDoc(calls[s].doc)) = 2

\* C22: in every reachable state, also when two ingest calls for the same
\* not-yet-ingested document run side by side and both pass the isIngested
\* check, no two ParentChunk rows have the same (documentId, parentIndex).
C22_ParentIndexUnique ==
    \A r1, r2 \in parentChunkRows :
        (r1.documentId = r2.documentId /\ r1.parentIndex = r2.parentIndex)
            => r1 = r2

\* two ingest calls for one document are past the isIngested check, the
\* row of parent 0 of the one exists and the create of the other was refused
C22_Witness ==
    /\ calls[1].op = "ingest" /\ calls[2].op = "ingest"
    /\ calls[1].doc = calls[2].doc
    /\ ~calls[1].flagAtStart /\ ~calls[2].flagAtStart
    /\ failures = 0
    /\ \E a, b \in Slots :
          /\ a # b
          /\ calls[a].pastCleanup /\ calls[b].pastCleanup
          /\ ParentRowOf(calls[a], 1) \in parentChunkRows
          /\ calls[b].parents[1].failed
          /\ calls[b].parents[1].rowId = <<0, 0>>

\* C23: in every state in which no ingest or deleteVectors call is in
\* flight, the vector entries and the ChildChunkLink rows of a document
\* correspond one to one by key: every vector entry of the document has the
\* id {documentId}_parent{P}_child{C} and a ChildChunkLink row with that
\* pineconeId, and the pineconeId of every ChildChunkLink row is the id of
\* an existing vector entry, after any sequence of ingest and deleteVectors
\* calls with individual step failures.
C23_VectorsMatchLinks ==
    (\A s \in Slots : ~InFlight(calls[s])) =>
        \A d \in Docs :
            /\ \A v \in VectorsOfDoc(d) :
                  /\ v.id = PineconeId(d, v.parentIndex, v.childIndex)
                  /\ \E l \in LinkRowsOfDoc(d) : l.pineconeId = v.id
            /\ \A l \in LinkRowsOfDoc(d) :
                  \E v \in vectorIndex : v.id = l.pineconeId

\* ingest has returned true after the createMany of its only parent failed:
\* the vector of the parent is in the index and no ChildChunkLink row
\* names it
C23_Witness ==
    /\ \A s \in Slots : ~InFlight(calls[s])
    /\ \E s \in IngestCalls :
          /\ Returned(s) /\ calls[s].result = "true" /\ calls[s].num = 1
          /\ Upserted(calls[s]) = {1} /\ Stored(calls[s]) = {}
          /\ Cardinality(VectorsOfDoc(calls[s].doc)) = 1
          /\ LinkRowsOfDoc(calls[s].doc) = {}

\* the steps of processSingleParent, in the order of the code
StepOrder ==
    {<<"new", "create">>, <<"create", "childSplit">>, <<"childSplit", "embed">>,
     <<"embed", "upsert">>, <<"upsert", "createMany">>, <<"createMany", "done">>}

\* a step after which the parent is over: a caught failure, or nothing to do
StepsOut ==
    {<<"create", "done">>, <<"childSplit", "done">>, <<"embed", "done">>,
     <<"upsert", "done">>}

\* what parent k of the call in slot s has written so far
VectorsWrittenBy(s, k) ==
    {v \in vectorIndex : v.parentChunkId = <<calls[s].num, k - 1>>}

LinksWrittenBy(s, k) ==
    {l \in ragChunkRows : l.pineconeId = PineconeId(calls[s].doc, k - 1, l.pineconeId[3])
                              /\ l.parentChunkId[1] = calls[s].num}

ParentStepsInOrder ==
    \A s \in IngestCalls : \A k \in ParentIndexes(s) :
        LET p == calls[s].parents[k] IN
        \* nothing is written before the ParentChunk row
        /\ p.pc \in {"new", "create"} =>
              /\ p.rowId = <<0, 0>> /\ ~p.upserted /\ ~p.stored
              /\ VectorsWrittenBy(s, k) = {} /\ LinksWrittenBy(s, k) = {}
        /\ p.pc \in {"childSplit", "embed", "upsert", "createMany"} =>
              /\ p.rowId = <<calls[s].num, k - 1>>
              /\ ParentRowOf(calls[s], k) \in parentChunkRows
        /\ p.pc \in {"childSplit", "embed", "upsert"} => ~p.upserted
        /\ p.pc = "createMany" => p.upserted /\ ~p.stored
        \* the vectors of a parent arrive in one batch, after the embedding
        /\ VectorsWrittenBy(s, k) =
              IF p.upserted THEN VectorsOf(calls[s], k) ELSE {}
        /\ p.upserted => "embed" \in calls[s].effects /\ p.rowId # <<0, 0>>
        \* links only after the upsert, one per vector, to the parent's own row
        /\ p.stored => p.upserted /\ p.pc = "done"
        /\ LinksWrittenBy(s, k) # {} => p.stored
        /\ p.stored =>
              /\ Cardinality(LinksWrittenBy(s, k)) = Cardinality(VectorsWrittenBy(s, k))
              /\ \A l \in LinksWrittenBy(s, k) :
                    /\ l.parentChunkId = p.rowId
                    /\ \E v \in VectorsWrittenBy(s, k) : v.id = l.pineconeId

\* C24: within the processing of one parent the steps occur in the order
\* ParentChunk row created, child fragments embedded, vector batch upserted
\* in a single call, ChildChunkLink rows created; the rows of a parent are
\* created only after that parent's upsert succeeded, and every created row
\* references the ParentChunk id created in the same parent's first step.
C24_ParentStepOrder ==
    /\ []ParentStepsInOrder
    /\ [][\A s \in Slots : \A k \in 1..3 :
            (/\ calls[s].op = "ingest" /\ calls'[s].op = "ingest"
             /\ calls'[s].num = calls[s].num
             /\ k <= Len(calls[s].parents) /\ k <= Len(calls'[s].parents)
             /\ calls'[s].parents[k].pc # calls[s].parents[k].pc)
                => <<calls[s].parents[k].pc, calls'[s].parents[k].pc>>
                      \in StepOrder \cup StepsOut]_vars

\* the second parent of three has stored its nineteen links while the third
\* is still waiting for its upsert
C24_Witness ==
    \E s \in IngestCalls :
        /\ Len(calls[s].parents) = 3
        /\ calls[s].parents[2].stored
        /\ Cardinality(LinksWrittenBy(s, 2)) = 19
        /\ \A l \in LinksWrittenBy(s, 2) : l.parentChunkId = <<calls[s].num, 1>>
        /\ calls[s].parents[3].pc = "upsert"

(***************************************************************************)
(* The order of the candidates and the mapping of the reranker's answer.   *)
(***************************************************************************)
\* 0.001 in the unit of the totals
Thousandth == RrfScale \div 1000

\* x is better than y under the order of the claim
Better(x, y) ==
    \/ x.total > y.total + Thousandth
    \/ /\ x.total - y.total < Thousandth /\ y.total - x.total < Thousandth
       /\ x.maxScore > y.maxScore

\* C25: the pre-rerank candidate list holds at most 10 parents and is
\* ordered so that for any two parents A before B, B's totalScore does not
\* exceed A's by more than 0.001, and when their totalScores differ by less
\* than 0.001 A's maxScore is at least B's; no parent that is cut off is
\* better under this order than a parent that is kept.
C25_TopTenInOrder ==
    \A s \in SearchCalls :
        calls[s].pc = "ranked" =>
            LET cs == calls[s].candidates
                all == Aggregate(calls[s].hits, 1, <<>>)
                kept == {cs[i].parentChunkId : i \in 1..Len(cs)}
            IN  /\ Len(cs) <= 10
                /\ \A i, j \in 1..Len(cs) : i < j => ~Better(cs[j], cs[i])
                /\ \A x \in 1..Len(all) :
                      all[x].parentChunkId \notin kept =>
                          \A i \in 1..Len(cs) : ~Better(all[x], cs[i])

\* three of the candidates are such that the comparator puts the first
\* before the second, the second before the third and the third before the
\* first: no order of the three meets the claim
C25_Witness ==
    \E s \in SearchCalls :
        /\ calls[s].pc = "ranked" /\ Len(calls[s].hits) = DefaultTopK
        /\ Len(calls[s].candidates) = TopParents
        /\ \E i, j, k \in 1..Len(calls[s].candidates) :
              LET cs == calls[s].candidates IN
              /\ Compare(cs[i], cs[j], RrfScale) < 0 /\ Better(cs[i], cs[j])
              /\ Compare(cs[j], cs[k], RrfScale) < 0 /\ Better(cs[j], cs[k])
              /\ Compare(cs[k], cs[i], RrfScale) < 0 /\ Better(cs[k], cs[i])

PairOf(l) == <<l.pineconeId[2], l.pineconeId[3]>>

LexLess(a, b) == a[1] < b[1] \/ (a[1] = b[1] /\ a[2] < b[2])

\* C27: for every document, the composite chunkIndex written to the
\* ChildChunkLink rows is distinct for distinct (parentIndex, childIndex)
\* pairs and increases strictly with the lexicographic order of the pairs,
\* for every number of child fragments a parent can produce, parents of
\* 1000 or more children included.
C27_ChunkIndexFollowsPairs ==
    \A d \in Docs : \A l1, l2 \in LinkRowsOfDoc(d) :
        LexLess(PairOf(l1), PairOf(l2)) => l1.chunkIndex < l2.chunkIndex

\* the last of the 1001 children of parent 0 and the only child of parent 1
\* carry the same chunkIndex
C27_Witness ==
    \E d \in Docs : \E l1, l2 \in LinkRowsOfDoc(d) :
        /\ PairOf(l1) = <<0, IndexStride>> /\ PairOf(l2) = <<1, 0>>
        /\ l1.chunkIndex = l2.chunkIndex
        /\ Cardinality(LinkRowsOfDoc(d)) = IndexStride + 2

(***************************************************************************)
(* reembedDocument, missing parent rows and the empty text.                *)
(***************************************************************************)
Reembeds == {s \in Slots : calls[s].handler = "reembedDocument"}

\* C28: reembedDocument reports success only if the old vectors and chunk
\* rows of the document were removed and the document was split, embedded
\* and persisted again in that call; in particular it does not report
\* success when deleteDocumentVectors failed and left isIngested true, so
\* that the following ingest short-circuits without re-embedding.
C28_SuccessMeansReembedded ==
    \A s \in Reembeds :
        calls[s].outcome = "success" =>
            /\ ~calls[s].flagAtStart
            /\ calls[s].pastCleanup /\ calls[s].didMark
            /\ \A r \in ParentRowsOfDoc(calls[s].doc) : r.id[1] = calls[s].num
            /\ \A l \in LinkRowsOfDoc(calls[s].doc) : l.parentChunkId[1] = calls[s].num

\* reembedDocument has reported success on an ingested document although
\* its deleteDocumentVectors failed: ingest found the flag set and wrote
\* nothing, the rows of the earlier ingestion are still there
C28_Witness ==
    \E s \in Reembeds :
        /\ calls[s].outcome = "success" /\ calls[s].ingestedBefore
        /\ failures = 1
        /\ calls[s].op = "ingest" /\ calls[s].flagAtStart
        /\ calls[s].effects = {} /\ ~calls[s].didMark
        /\ isIngested[calls[s].doc]
        /\ ParentRowsOfDoc(calls[s].doc) # {}
        /\ \A r \in ParentRowsOfDoc(calls[s].doc) : r.id[1] # calls[s].num

\* every result has a text
HaveText(rs) ==
    \A i \in 1..Len(rs) : rs[i].text # NoText /\ ParentTextOf(rs[i].text) # <<>>

\* C29: every result returned by search has a non-empty parentText that
\* was read from a ParentChunk row existing at fetch time: a candidate
\* whose id has no ParentChunk row (deleted by a call running beside the
\* search, or because the batch fetch failed) is dropped from the result
\* and is not sent to the reranker.
C29_ResultsHaveFetchedText ==
    /\ [](\A s \in SearchCalls :
            /\ HaveText(calls[s].unique) /\ HaveText(calls[s].results)
            /\ \A i \in 1..Len(calls[s].intermediate) :
                  calls[s].intermediate[i].text = NoText =>
                      /\ calls[s].intermediate[i].parentChunkId \notin IdsOf(calls[s].unique)
                      /\ calls[s].intermediate[i].parentChunkId \notin IdsOf(calls[s].results)
            /\ IdsOf(calls[s].results) \subseteq IdsOf(calls[s].unique)
            /\ "rerank" \in calls[s].effects => calls[s].unique # <<>>)
    /\ [][\A s \in Slots :
            (calls[s].op = "search" /\ calls[s].pc = "fetch" /\ calls'[s].pc # "fetch") =>
                /\ failures' # failures => calls'[s].unique = <<>>
                /\ \A i \in 1..Len(calls'[s].unique) :
                      \E r \in parentChunkRows :
                          /\ r.id = calls'[s].unique[i].parentChunkId
                          /\ calls'[s].unique[i].text = <<r.content, r.parentIndex + 1>>]_vars

\* a deleteVectors running beside the search has removed the row of its
\* only candidate before the fetch: the search has returned nothing and has
\* not called the reranker
C29_Witness ==
    \E s \in SearchCalls : \E t \in DeleteCalls :
        /\ Returned(s) /\ failures = 0
        /\ Len(calls[s].intermediate) = 1
        /\ calls[s].intermediate[1].text = NoText
        /\ calls[s].results = <<>>
        /\ "rerank" \notin calls[s].effects
        /\ calls[t].num > calls[s].num /\ calls[t].doc = calls[s].intermediate[1].documentId
        /\ "parentChunk.deleteMany" \in calls[t].effects

\* C30: textSplitterForRag returns at least one segment for every input,
\* the empty string included, for which it returns the single segment "";
\* so the zero-segment early return of ingest is never taken, and ingest of
\* an empty text proceeds to the cleanup deletes, creates a ParentChunk row
\* with empty text and sets the flag.
C30_EmptyTextIsOneSegment ==
    /\ started = 0 =>
          \A m \in 1..MaxMaxLength :
              /\ textSplitterForRag(<<>>, m) = <<(<<>>)>>
              /\ \A t \in Texts : Len(textSplitterForRag(t, m)) >= 1
    /\ \A s \in IngestCalls :
          LET c == calls[s] IN
          /\ Len(ParentChunksOf[c.content]) >= 1
          \* true is returned by the short-circuit of an ingested document
          \* or after the flag update, never for want of segments
          /\ (Returned(s) /\ c.result = "true" /\ ~c.flagAtStart) =>
                /\ c.didMark /\ c.pastCleanup
                /\ {"ragChunk.deleteMany", "parentChunk.deleteMany"} \subseteq c.effects
          /\ (c.content = "empty" /\ c.pc \notin {"lookup", "split", "deleteParents"}
                 /\ ~c.flagAtStart /\ ~c.caught) =>
                /\ Len(c.parents) = 1 /\ c.pastCleanup
                /\ "parentChunk.create" \in c.effects =>
                      \/ c.parents[1].failed
                      \/ /\ ParentRowOf(c, 1) \in parentChunkRows
                         /\ ParentTextOf(<<c.content, 1>>) = <<>>
                /\ ~c.parents[1].upserted
                /\ Returned(s) => c.didMark /\ isIngested[c.doc]

\* ingest of the empty text has returned true: the cleanup ran, the row of
\* the empty parent exists, nothing went to the index, the flag is set
C30_Witness ==
    \E s \in IngestCalls :
        /\ calls[s].content = "empty" /\ Returned(s) /\ calls[s].result = "true"
        /\ calls[s].effects = {"ragChunk.deleteMany", "parentChunk.deleteMany",
                               "parentChunk.create", "document.update"}
        /\ ParentRowsOfDoc(calls[s].doc) = {ParentRowOf(calls[s], 1)}
        /\ VectorsOfDoc(calls[s].doc) = {} /\ LinkRowsOfDoc(calls[s].doc) = {}
        /\ isIngested[calls[s].doc]

====
